---------------------------- MODULE Spec2Model ----------------------------
(***************************************************************************)
(* Model of the Redfish expand handlers of bmcweb:                         *)
(*   - the processor family (processor collection -> core sub-collection   *)
(*     -> thread sub-collection), driven by the "efficient processor       *)
(*     expand handler";                                                    *)
(*   - the memory family (DIMM collection with partitions), driven by the  *)
(*     "efficient expand handler" of the memory collection;                *)
(*   - the storage family (specification StorageSpec): the controller      *)
(*     collection and one volume of a storage, the PATCH of a controller's *)
(*     attached volumes, and the erase of a drive with its task.           *)
(* The D-Bus backend is the environment: every asynchronous call is an     *)
(* element of `inflight`; delivering its reply runs the continuation to    *)
(* completion (single-threaded event loop).                                *)
(* Of a member's content the model keeps the fields that identify it (its  *)
(* id, its link, its status and one property that carries the object's     *)
(* own data); constant fields (@odata.type, Name) and the look-ups that    *)
(* only add a link inside the member (chassis, location, asset, health)    *)
(* are left out.                                                           *)
(***************************************************************************)
EXTENDS Integers, Sequences, FiniteSets, TLC

(***************************************************************************)
(* Strings.  An identifier is a sequence of one-character strings, so that *)
(* the comparator can look at its characters.                              *)
(***************************************************************************)
Digit == {"0", "1", "2", "3", "4", "5", "6", "7", "8", "9"}

CharCode ==
  [c \in Digit \cup {"/", "a", "c", "d", "h", "i", "k", "n", "o", "p", "r", "s", "t",
                   "v", "x"} |->
     CASE c = "/" -> 47
       [] c = "0" -> 48 [] c = "1" -> 49 [] c = "2" -> 50 [] c = "3" -> 51
       [] c = "4" -> 52 [] c = "5" -> 53 [] c = "6" -> 54 [] c = "7" -> 55
       [] c = "8" -> 56 [] c = "9" -> 57
       [] c = "a" -> 97 [] c = "c" -> 99 [] c = "d" -> 100 [] c = "h" -> 104
       [] c = "i" -> 105
       [] c = "k" -> 107 [] c = "n" -> 110 [] c = "o" -> 111 [] c = "p" -> 112
       [] c = "r" -> 114 [] c = "s" -> 115 [] c = "t" -> 116 [] c = "v" -> 118
       [] c = "x" -> 120]

IsDigit(c) == c \in Digit

DigitVal(c) == CharCode[c] - 48

\* Raw (byte-wise) three-way comparison of two strings: -1, 0, 1.
RECURSIVE LexCmp(_, _)
LexCmp(a, b) ==
  IF a = <<>> /\ b = <<>> THEN 0
  ELSE IF a = <<>> THEN -1
  ELSE IF b = <<>> THEN 1
  ELSE IF CharCode[Head(a)] < CharCode[Head(b)] THEN -1
  ELSE IF CharCode[Head(a)] > CharCode[Head(b)] THEN 1
  ELSE LexCmp(Tail(a), Tail(b))

\* Length of the maximal run of characters at the head of s that are all
\* digits or all non-digits, like s[1].
RECURSIVE RunLen(_)
RunLen(s) ==
  IF s = <<>> THEN 0
  ELSE IF Len(s) = 1 THEN 1
  ELSE IF IsDigit(s[1]) = IsDigit(s[2]) THEN 1 + RunLen(Tail(s))
  ELSE 1

RECURSIVE NumVal(_, _)
NumVal(run, acc) ==
  IF run = <<>> THEN acc ELSE NumVal(Tail(run), 10 * acc + DigitVal(Head(run)))

\* Two runs: digit runs compare by numeric value, anything else lexically.
RunCmp(ra, rb) ==
  IF IsDigit(ra[1]) /\ IsDigit(rb[1])
  THEN LET va == NumVal(ra, 0)
           vb == NumVal(rb, 0)
       IN  IF va < vb THEN -1 ELSE IF va > vb THEN 1 ELSE 0
  ELSE LexCmp(ra, rb)

RECURSIVE NaturalCmp(_, _)
NaturalCmp(a, b) ==
  IF a = <<>> /\ b = <<>> THEN 0
  ELSE IF a = <<>> THEN -1
  ELSE IF b = <<>> THEN 1
  ELSE LET la == RunLen(a)
           lb == RunLen(b)
           c  == RunCmp(SubSeq(a, 1, la), SubSeq(b, 1, lb))
       IN  IF c # 0 THEN c
           ELSE NaturalCmp(SubSeq(a, la + 1, Len(a)), SubSeq(b, lb + 1, Len(b)))

\* The comparator handed to std::sort: natural order, ties broken by the raw
\* string comparison.
AlphanumLess(a, b) ==
  LET c == NaturalCmp(a, b)
  IN  IF c # 0 THEN c < 0 ELSE LexCmp(a, b) < 0

RECURSIVE InsertSorted(_, _)
InsertSorted(x, s) ==
  IF s = <<>> THEN <<x>>
  ELSE IF AlphanumLess(x, Head(s)) THEN <<x>> \o s
  ELSE <<Head(s)>> \o InsertSorted(x, Tail(s))

\* Variant: the ids are left in the order of the listing.
NoSort(s) == s

\* Variant: std::sort with the default comparator of std::string.
RECURSIVE InsertSortedLex(_, _)
InsertSortedLex(x, s) ==
  IF s = <<>> THEN <<x>>
  ELSE IF LexCmp(x, Head(s)) < 0 THEN <<x>> \o s
  ELSE <<Head(s)>> \o InsertSortedLex(x, Tail(s))

RECURSIVE SortIdsLex(_)
SortIdsLex(s) ==
  IF s = <<>> THEN <<>> ELSE InsertSortedLex(Head(s), SortIdsLex(Tail(s)))

\* std::sort(v.begin(), v.end(), AlphanumLess<std::string>())
RECURSIVE SortIds(_)
SortIds(s) ==
  IF s = <<>> THEN <<>> ELSE InsertSorted(Head(s), SortIds(Tail(s)))

IsSortedIds(s) ==
  \A i \in 1..(Len(s) - 1) : ~AlphanumLess(s[i + 1], s[i])

(***************************************************************************)
(* Generic sequence helpers.                                               *)
(***************************************************************************)
Range(s) == {s[i] : i \in DOMAIN s}

\* All orders in which a reply can list the elements of a finite set.
Perms(S) ==
  {s \in [1..Cardinality(S) -> S] : \A x \in S : \E i \in DOMAIN s : s[i] = x}

IsPrefix(p, q) == Len(p) <= Len(q) /\ SubSeq(q, 1, Len(p)) = p


Max(S) == CHOOSE x \in S : \A y \in S : y <= x

\* "/a/b/c" for the segments <<a, b, c>>.
RECURSIVE Join(_)
Join(segs) ==
  IF segs = <<>> THEN <<>> ELSE <<"/">> \o Head(segs) \o Join(Tail(segs))

(***************************************************************************)
(* Bounds of the model.                                                    *)
(***************************************************************************)
\* The size of a scenario: the backend objects that exist, plus those among
\* them whose property data is wrongly typed, plus the backend calls that fail.
MaxScenario == 4

(***************************************************************************)
(* The backend: D-Bus objects of the inventory.  A path is a sequence of   *)
(* segments; the mapper's service map of an object is the sequence `svcs`. *)
(***************************************************************************)
Services == {"svcA", "svcB"}

INV == <<"i">>
ALT == <<"a">>
C2  == <<"c", "2">>
C10 == <<"c", "1", "0">>
K2  == <<"k", "2">>
K3  == <<"k", "3">>
K10 == <<"k", "1", "0">>
T2  == <<"t", "2">>
T10 == <<"t", "1", "0">>
O1  == <<"o", "1">>
X1  == <<"x", "1">>
D2  == <<"d", "2">>
D10 == <<"d", "1", "0">>
P1  == <<"p", "1">>
H1  == <<"h", "1">>
H2  == <<"h", "2">>
R2  == <<"r", "2">>
R10 == <<"r", "1", "0">>
\* A last segment for which object_path::filename() yields the empty string.
NoName == <<>>

Obj(path, kind, svcs) == [path |-> path, kind |-> kind, svcs |-> svcs]

ProcUniverse ==
  { Obj(<<INV, C2>>, "Cpu", <<"svcA">>),
    Obj(<<INV, C10>>, "Cpu", <<"svcA">>),
    Obj(<<ALT, C2>>, "Cpu", <<"svcB">>),
    Obj(<<INV, C2, K2>>, "CpuCore", <<"svcA">>),
    Obj(<<INV, C2, K10>>, "CpuCore", <<"svcA">>),
    Obj(<<INV, C2, K3>>, "CpuCore", <<"svcB">>),
    Obj(<<INV, C10, K2>>, "CpuCore", <<"svcA">>),
    Obj(<<INV, C2, O1>>, "Other", <<"svcA">>),
    Obj(<<INV, X1>>, "UniqueId", <<"svcA">>),
    Obj(<<INV, C2, K2, T2>>, "CpuThread", <<"svcA">>),
    Obj(<<INV, C2, K2, T10>>, "CpuThread", <<"svcA">>) }

\* A DIMM path can be served by two services at once.
MemUniverse ==
  { Obj(<<INV, D2>>, "Dimm", <<"svcA">>),
    Obj(<<INV, D2>>, "Dimm", <<"svcA", "svcB">>),
    Obj(<<INV, D10>>, "Dimm", <<"svcB">>),
    Obj(<<INV, NoName>>, "Dimm", <<"svcB">>),
    Obj(<<INV, D2, P1>>, "Partition", <<"svcA">>),
    Obj(<<INV, D10, P1>>, "Partition", <<"svcB">>) }

\* A chassis with its drives, and a chassis no service is listed for.
ChassisUniverse ==
  { Obj(<<INV, H1>>, "Chassis", <<"svcA">>),
    Obj(<<INV, H2>>, "Chassis", <<>>),
    Obj(<<INV, H1, R2>>, "Drive", <<"svcA">>),
    Obj(<<INV, H1, R10>>, "Drive", <<"svcB">>) }

Universe(kind) ==
  IF kind \in {"Memory", "Dimm"} THEN MemUniverse
  ELSE IF kind = "ChassisDrives" THEN ChassisUniverse
  ELSE ProcUniverse

\* sdbusplus::message::object_path::filename(): the last segment, empty for
\* the root path.
filename(path) == IF path = <<>> THEN <<>> ELSE path[Len(path)]

parent_path(path) ==
  IF path = <<>> THEN <<>> ELSE SubSeq(path, 1, Len(path) - 1)

\* An inventory is closed under parents: a core exists only on a processor.
ParentClosed(S, U) ==
  \A o \in S : Len(o.path) > 2 =>
     \E q \in S : q.path = parent_path(o.path)

\* An object path names one object.
UniquePaths(S) == \A o \in S, q \in S : o.path = q.path => o = q

Inventories(U) ==
  {S \in SUBSET U :
     Cardinality(S) <= MaxScenario /\ ParentClosed(S, U) /\ UniquePaths(S)}


(***************************************************************************)
(* State.                                                                  *)
(***************************************************************************)
VARIABLES
  req,        \* the HTTP request: [kind, expandLevel]
  world,      \* the backend: [objs, malformed]
  doc,        \* asyncResp->res.jsonValue: JSON pointer -> value
  resStatus,  \* asyncResp->res.result(): "200", "404", "500"
  inflight,   \* asynchronous D-Bus calls whose continuation has not run
  issued,     \* every D-Bus call issued so far (history of inflight)
  faults,     \* failed backend calls so far
  answered,   \* the error code every answered call got (history)
  phase,      \* "idle", "running", "done" (response sent), "crashed"
  hap,        \* memory::HealthAndPartition of the request
  task        \* task::TaskData of the request, once it is created

vars ==
  <<req, world, doc, resStatus, inflight, issued, faults, answered, phase, hap,
    task>>

\* Largest $expand level the processor collection route delegates.
canDelegateExpandLevel == 6

\* Largest $expand level the memory collection route delegates.
canDelegateExpandLevelMemory == 1

\* uint8_t arithmetic: the value an int expression has once it is passed as a
\* uint8_t argument.
U8(x) == x % 256

(***************************************************************************)
(* The JSON document.  A JSON pointer is a sequence of tokens (strings);   *)
(* the document maps the pointers of its leaves to their values, which are *)
(* strings (sequences of characters or of words).                          *)
(***************************************************************************)
IdxTok == <<"0", "1", "2", "3", "4", "5", "6", "7", "8", "9">>

Tok(i) == IdxTok[i + 1]

TokIdx(t) == CHOOSE i \in 0..9 : IdxTok[i + 1] = t

EmptyArray == <<"[]">>

SUB == <<"SubProcessors">>

\* jsonValue[ptr] = val for a leaf.
Write(d, ptr, val) == (ptr :> val) @@ d

\* jsonValue[ptr] = nlohmann::json::array(): whatever was below ptr is gone.
AssignArray(d, ptr) ==
  LET keep == {p \in DOMAIN d : ~IsPrefix(ptr, p)}
  IN  (ptr :> EmptyArray) @@ [p \in keep |-> d[p]]

\* The pointers of the document strictly below ptr.
Below(d, ptr) == {p \in DOMAIN d : IsPrefix(ptr, p) /\ Len(p) > Len(ptr)}

\* jsonValue[ptr].size() of an array (0 for null or an empty array): writing
\* index i of an array creates the elements up to i.
ArrLen(d, ptr) ==
  LET idx == {TokIdx(p[Len(ptr) + 1]) : p \in Below(d, ptr)}
  IN  IF idx = {} THEN 0 ELSE Max(idx) + 1

\* The element i of the array at ptr holds something (it is not null).
SlotWritten(d, ptr, i) == Below(d, ptr \o <<Tok(i)>>) # {}

HasKey(d, ptr) == \E p \in DOMAIN d : IsPrefix(ptr, p)

(***************************************************************************)
(* An effect: what one continuation has done so far.                       *)
(***************************************************************************)
Put(e, ptr, val) == [e EXCEPT !.doc = Write(@, ptr, val)]

PutArray(e, ptr) == [e EXCEPT !.doc = AssignArray(@, ptr)]

\* messages::internalError(res)
internalError(e) ==
  [e EXCEPT !.doc = Write(@, <<"error">>, <<"InternalError">>),
            !.status = "500"]

\* messages::resourceNotFound(res, ...)
resourceNotFound(e) ==
  [e EXCEPT !.doc = Write(@, <<"error">>, <<"ResourceNotFound">>),
            !.status = "404"]

Call(kind, coll, ptr, level, svc, pid, cid, path, ids, map, eps) ==
  [kind |-> kind, coll |-> coll, ptr |-> ptr, level |-> level, svc |-> svc,
   pid |-> pid, cid |-> cid, path |-> path, ids |-> ids, map |-> map,
   eps |-> eps, dimmServices |-> {}, partitionServices |-> {}]

Issue(e, c) == [e EXCEPT !.calls = @ \cup {c}]

(***************************************************************************)
(* Replies of the backend.                                                 *)
(***************************************************************************)
ObjsOfKind(kinds) == {o \in world.objs : o.kind \in kinds}

\* GetSubTree of the mapper: the objects implementing one of the interfaces,
\* in an order the mapper chooses.
SubTreeNatural(kinds) ==
  {[ec |-> "ok", subtree |-> s] : s \in Perms(ObjsOfKind(kinds))}
    \cup (IF ObjsOfKind(kinds) = {}
          THEN {[ec |-> "io_error", subtree |-> <<>>]} ELSE {})

SubTreeFaulty(kinds) ==
  {[ec |-> "other", subtree |-> <<>>]}
    \cup (IF ObjsOfKind(kinds) # {}
          THEN {[ec |-> "io_error", subtree |-> <<>>]} ELSE {})

\* The endpoints of the association <path>/containing.
Endpoints(path) == {o.path : o \in {q \in world.objs : parent_path(q.path) = path}}

AssocNatural(path) ==
  IF Endpoints(path) = {}
  THEN {[ec |-> "io_error", eps |-> {}]}
  ELSE {[ec |-> "ok", eps |-> Endpoints(path)]}

AssocFaulty(path) ==
  {[ec |-> "other", eps |-> {}]}
    \cup (IF Endpoints(path) # {} THEN {[ec |-> "io_error", eps |-> {}]} ELSE {})

\* GetManagedObjects of one service: the objects it serves.
ManagedNatural(svc) ==
  {[ec |-> "ok", objs |-> {o \in world.objs : svc \in Range(o.svcs)}]}

ManagedFaulty(svc) == {[ec |-> "other", objs |-> {}]}

\* GetSubTree of the mapper for org.freedesktop.DBus.ObjectManager: the
\* services that implement it.
ObjectManagerNatural ==
  {[ec |-> "ok",
    oms |-> {svc \in Services : \E o \in world.objs : svc \in Range(o.svcs)}]}

ObjectManagerFaulty == {[ec |-> "other", oms |-> {}]}

\* The replies a call can get now: a failure only while faults remain.
Replies(natural, faulty) ==
  natural \cup (IF Cardinality(world.objs) + Cardinality(world.malformed)
                     + faults < MaxScenario
                THEN faulty ELSE {})

\* The property data of the object at path in a GetManagedObjects reply:
\* "none" (not in the reply), "ok", or "malformed" (a property of the wrong
\* type).
PropsIn(objs, path) ==
  IF \A o \in objs : o.path # path THEN "none"
  ELSE IF path \in world.malformed THEN "malformed"
  ELSE "ok"


(***************************************************************************)
(* Processor family: the synchronous parts of the handlers, as functions   *)
(* from an effect to an effect.                                            *)
(***************************************************************************)
NoMap == <<>>

\* std::unordered_map::insert for every listed object, keyed by its id: the
\* first object listed under an id stays.
FirstWithId(seq, id) ==
  seq[CHOOSE i \in DOMAIN seq :
        /\ filename(seq[i].path) = id
        /\ \A j \in 1..(i - 1) : filename(seq[j].path) # id]

IdToSubtreeRespMap(seq) ==
  [id \in {filename(o.path) : o \in Range(seq)} |-> FirstWithId(seq, id)]

\* The ids pushed back while walking the listing, in listing order.
IdsOf(seq) == [i \in DOMAIN seq |-> filename(seq[i].path)]

\* The listed objects that are endpoints of the association, in listing order.
RECURSIVE FilterEndpoints(_, _)
FilterEndpoints(seq, eps) ==
  IF seq = <<>> THEN <<>>
  ELSE IF Head(seq).path \in eps
       THEN <<Head(seq)>> \o FilterEndpoints(Tail(seq), eps)
       ELSE FilterEndpoints(Tail(seq), eps)

\* Variant: every member is written at index 0.
MemberPtrShared(jsonPtr, memberCount) == jsonPtr \o <<"Members", Tok(0)>>

\* Variant: the members are written from index 1 on.
MemberPtrOneBased(jsonPtr, memberCount) ==
  jsonPtr \o <<"Members", Tok(memberCount + 1)>>

\* jsonPtr / "Members" / memberCount: the slot of the member the loop of a
\* collection is at.
MemberPtr(jsonPtr, memberCount) == jsonPtr \o <<"Members", Tok(memberCount)>>

\* getCoreThreadDataByService
getCoreThreadDataByService(e, jsonPtr, processorId, coreId, threadId, props, threadPath) ==
  LET e1 == Put(e, jsonPtr \o <<"@odata.id">>,
                Join(<<processorId, SUB, coreId, SUB, threadId>>))
      e2 == Put(e1, jsonPtr \o <<"Id">>, threadId)
      e3 == Put(Put(e2, jsonPtr \o <<"Status", "State">>, <<"Enabled">>),
                jsonPtr \o <<"Status", "Health">>, <<"OK">>)
  IN  IF props = "malformed" THEN internalError(e3)
      ELSE IF props = "ok"
      THEN Put(e3, jsonPtr \o <<"ProcessorId", "MicrocodeInfo">>,
               Join(threadPath))
      ELSE Put(Put(e3, jsonPtr \o <<"Status", "State">>, <<"Absent">>),
               jsonPtr \o <<"Status", "Health">>, <<"Critical">>)

\* getSubProcessorThreadCollectionWithExpand, up to its first D-Bus call: the
\* endpoints of <corePath>/containing are requested.
getSubProcessorThreadCollectionWithExpand(e, jsonPtr, expandLevel, processorId, coreId, corePath) ==
  Issue(e, Call("ThreadEndpoints", jsonPtr, jsonPtr, expandLevel, "mapper",
                processorId, coreId, corePath, <<>>, NoMap, {}))

\* Variant: the thread collection is expanded whatever budget is left.
getCpuCoreDataByServiceUnguarded(e, jsonPtr, expandLevel, processorId, coreId, props, corePath) ==
  LET e1 == Put(e, jsonPtr \o <<"@odata.id">>, Join(<<processorId, SUB, coreId>>))
      e2 == Put(e1, jsonPtr \o <<"Id">>, coreId)
      e3 == IF expandLevel >= 0
            THEN getSubProcessorThreadCollectionWithExpand(
                   e2, jsonPtr \o <<"SubProcessors">>, U8(expandLevel - 1),
                   processorId, coreId, corePath)
            ELSE Put(e2, jsonPtr \o <<"SubProcessors", "@odata.id">>,
                     Join(<<processorId, SUB, coreId, SUB>>))
      e4 == Put(Put(e3, jsonPtr \o <<"Status", "State">>, <<"Enabled">>),
                jsonPtr \o <<"Status", "Health">>, <<"OK">>)
  IN  IF props = "malformed" THEN internalError(e4)
      ELSE IF props = "ok"
      THEN Put(e4, jsonPtr \o <<"ProcessorId", "MicrocodeInfo">>,
               Join(corePath))
      ELSE Put(Put(e4, jsonPtr \o <<"Status", "State">>, <<"Absent">>),
               jsonPtr \o <<"Status", "Health">>, <<"Critical">>)

\* getCpuCoreDataByService
getCpuCoreDataByService(e, jsonPtr, expandLevel, processorId, coreId, props, corePath) ==
  LET e1 == Put(e, jsonPtr \o <<"@odata.id">>, Join(<<processorId, SUB, coreId>>))
      e2 == Put(e1, jsonPtr \o <<"Id">>, coreId)
      e3 == IF expandLevel > 0
            THEN getSubProcessorThreadCollectionWithExpand(
                   e2, jsonPtr \o <<"SubProcessors">>, U8(expandLevel - 1),
                   processorId, coreId, corePath)
            ELSE Put(e2, jsonPtr \o <<"SubProcessors", "@odata.id">>,
                     Join(<<processorId, SUB, coreId, SUB>>))
      e4 == Put(Put(e3, jsonPtr \o <<"Status", "State">>, <<"Enabled">>),
                jsonPtr \o <<"Status", "Health">>, <<"OK">>)
  IN  IF props = "malformed" THEN internalError(e4)
      ELSE IF props = "ok"
      THEN Put(e4, jsonPtr \o <<"ProcessorId", "MicrocodeInfo">>,
               Join(corePath))
      ELSE Put(Put(e4, jsonPtr \o <<"Status", "State">>, <<"Absent">>),
               jsonPtr \o <<"Status", "Health">>, <<"Critical">>)

\* getSubProcessorCoreCollectionWithExpand, up to its first D-Bus call.
getSubProcessorCoreCollectionWithExpand(e, jsonPtr, expandLevel, processorId, cpuPath) ==
  Issue(e, Call("CoreEndpoints", jsonPtr, jsonPtr, expandLevel, "mapper",
                processorId, <<>>, cpuPath, <<>>, NoMap, {}))

\* getCpuDataByService, up to its D-Bus call: GetManagedObjects of the service.
getCpuDataByService(e, coll, cpuId, service, objPath, jsonPtr) ==
  Issue(e, Call("CpuManagedObjects", coll, jsonPtr, 0, service, cpuId, <<>>,
                objPath, <<>>, NoMap, {}))

\* The loop of getProcessorData over the service map: every service that
\* lists Inventory.Item.Cpu is asked for its managed objects.
RECURSIVE CpuServicesLoop(_, _, _, _, _, _)
CpuServicesLoop(e, coll, svcs, processorId, objectPath, jsonPtr) ==
  IF svcs = <<>> THEN e
  ELSE CpuServicesLoop(
         getCpuDataByService(e, coll, processorId, Head(svcs), objectPath,
                             jsonPtr),
         coll, Tail(svcs), processorId, objectPath, jsonPtr)

\* Variant: the core collection gets the budget of the processor itself.
getProcessorDataSameBudget(e, coll, jsonPtr, expandLevel, processorId, obj) ==
  LET e1 == Put(e, jsonPtr \o <<"@odata.id">>, Join(<<processorId>>))
      e2 == IF expandLevel > 0
            THEN getSubProcessorCoreCollectionWithExpand(
                   e1, jsonPtr \o <<"SubProcessors">>, expandLevel,
                   processorId, obj.path)
            ELSE Put(e1, jsonPtr \o <<"SubProcessors", "@odata.id">>,
                     Join(<<processorId, SUB>>))
  IN  IF obj.kind # "Cpu" THEN e2
      ELSE CpuServicesLoop(e2, coll, obj.svcs, processorId, obj.path,
                           jsonPtr)

\* getProcessorData
getProcessorData(e, coll, jsonPtr, expandLevel, processorId, obj) ==
  LET e1 == Put(e, jsonPtr \o <<"@odata.id">>, Join(<<processorId>>))
      e2 == IF expandLevel > 0
            THEN getSubProcessorCoreCollectionWithExpand(
                   e1, jsonPtr \o <<"SubProcessors">>, U8(expandLevel - 1),
                   processorId, obj.path)
            ELSE Put(e1, jsonPtr \o <<"SubProcessors", "@odata.id">>,
                     Join(<<processorId, SUB>>))
  IN  IF obj.kind # "Cpu" THEN e2
      ELSE CpuServicesLoop(e2, coll, obj.svcs, processorId, obj.path,
                           jsonPtr)


(***************************************************************************)
(* Running a continuation.                                                 *)
(***************************************************************************)
E0 == [doc |-> doc, calls |-> {}, status |-> resStatus, hap |-> hap]

NoHap == [alive |-> FALSE, dimmToPtr |-> <<>>, objectsForPartition |-> <<>>]

\* No task has been created.
NoTask == [created |-> FALSE, monitor |-> FALSE, state |-> <<>>,
           completions |-> 0]

(***************************************************************************)
(* memory::HealthAndPartition: what its destructor does once the last      *)
(* continuation that holds it has run.                                     *)
(***************************************************************************)
\* assembleDimmPartitionData
assembleDimmPartitionData(e, props, partitionPath, regionPtr) ==
  IF props = "malformed" THEN internalError(e)
  ELSE Put(e, regionPtr \o <<Tok(ArrLen(e.doc, regionPtr)), "RegionId">>,
           Join(partitionPath))

\* The loop of populatePartitions over the stored objects.
RECURSIVE PartitionLoop(_, _)
PartitionLoop(e, objects) ==
  IF objects = <<>> THEN e
  ELSE LET o == Head(objects)
           dimm == filename(parent_path(o.path))
       IN  IF \/ o.kind # "Partition"
              \/ dimm = <<>>
              \/ dimm \notin DOMAIN e.hap.dimmToPtr
           THEN PartitionLoop(e, Tail(objects))
           ELSE PartitionLoop(
                  assembleDimmPartitionData(
                    e, IF o.path \in world.malformed THEN "malformed" ELSE "ok",
                    o.path, e.hap.dimmToPtr[dimm] \o <<"Regions">>),
                  Tail(objects))

\* The members of the array at ptr, moved: order[k + 1] is the old index of
\* the member that comes to index k.
Reorder(d, ptr, order) ==
  LET n == Len(ptr)
      moved(p) == Len(p) > n + 1 /\ SubSeq(p, 1, n) = ptr
      old(q) == ptr \o <<Tok(order[TokIdx(q[n + 1]) + 1])>>
                    \o SubSeq(q, n + 2, Len(q))
      dom == {p \in DOMAIN d : ~moved(p)} \cup
             UNION {{ptr \o <<Tok(k)>> \o SubSeq(p, n + 2, Len(p)) :
                       p \in {x \in DOMAIN d :
                               moved(x) /\ x[n + 1] = Tok(order[k + 1])}} :
                    k \in 0..(Len(order) - 1)}
  IN  [q \in dom |-> IF moved(q) THEN d[old(q)] ELSE d[q]]

\* Variant: the members come in the byte-wise order of their value of key.
sortJsonArrayByKeyLex(d, ptr, key) ==
  LET n == ArrLen(d, ptr)
      val(i) == IF ptr \o <<Tok(i), key>> \in DOMAIN d
                THEN d[ptr \o <<Tok(i), key>>] ELSE <<>>
      sorted(order) ==
        \A k \in 1..(n - 1) : LexCmp(val(order[k + 1]), val(order[k])) >= 0
  IN  {Reorder(d, ptr, order) : order \in {o \in Perms(0..(n - 1)) : sorted(o)}}

\* json_util::sortJsonArrayByKey(key, array): the documents it can leave.
\* The members come in the comparator's order of their value of key; members
\* with equal values in any order.
sortJsonArrayByKey(d, ptr, key) ==
  LET n == ArrLen(d, ptr)
      val(i) == IF ptr \o <<Tok(i), key>> \in DOMAIN d
                THEN d[ptr \o <<Tok(i), key>>] ELSE <<>>
      sorted(order) ==
        \A k \in 1..(n - 1) : ~AlphanumLess(val(order[k + 1]), val(order[k]))
  IN  {Reorder(d, ptr, order) : order \in {o \in Perms(0..(n - 1)) : sorted(o)}}

\* populatePartitions
populatePartitions(e) ==
  LET e1 == PartitionLoop(e, e.hap.objectsForPartition)
  IN  IF ~HasKey(e1.doc, <<"Members">>) THEN {e1}
      ELSE {[e1 EXCEPT !.doc = d] :
              d \in sortJsonArrayByKey(e1.doc, <<"Members">>, "@odata.id")}

\* ~HealthAndPartition()
HealthAndPartitionDestructor(e) ==
  {[f EXCEPT !.hap = NoHap] : f \in populatePartitions(e)}

\* Variant: the response is sent as soon as a continuation issues no call of
\* its own, whatever else is in flight.
CommitEarly(c, e) ==
  LET rest == (inflight \ {c}) \cup e.calls
  IN  /\ inflight' = rest
      /\ issued' = issued \cup e.calls
      /\ doc' = e.doc
      /\ resStatus' = e.status
      /\ hap' = e.hap
      /\ phase' = IF e.calls = {} THEN "done" ELSE "running"
      /\ UNCHANGED <<task, req, world>>

\* Variant: the partitions are assembled as soon as every partition reply is
\* in, whatever DIMM retrieval is still in flight.
CommitPartitionsFirst(c, e) ==
  LET rest == (inflight \ {c}) \cup e.calls
  IN  \E f \in (IF /\ e.hap.alive
                   /\ \A x \in rest : x.kind # "PartitionManagedObjects"
                THEN HealthAndPartitionDestructor(e) ELSE {e}) :
        /\ inflight' = rest
        /\ issued' = issued \cup e.calls
        /\ doc' = f.doc
        /\ resStatus' = f.status
        /\ hap' = f.hap
        /\ phase' = IF rest = {} THEN "done" ELSE "running"
        /\ UNCHANGED <<task, req, world>>

\* The continuation of call c has run with effect e.  Every call in flight
\* holds a reference on the response: when none is left, the response is sent.
Commit(c, e) ==
  LET rest == (inflight \ {c}) \cup e.calls
  IN  \E f \in (IF rest = {} /\ e.hap.alive
                THEN HealthAndPartitionDestructor(e) ELSE {e}) :
        /\ inflight' = rest
        /\ issued' = issued \cup e.calls
        /\ doc' = f.doc
        /\ resStatus' = f.status
        /\ hap' = f.hap
        /\ phase' = IF rest = {} THEN "done" ELSE "running"
        /\ UNCHANGED <<task, req, world>>

Deliverable(c, kind) == phase = "running" /\ c \in inflight /\ c.kind = kind

\* The reply r of call c has arrived; it is a failure when it is in faulty.
CountFault(c, r, faulty) ==
  /\ faults' = IF r \in faulty THEN faults + 1 ELSE faults
  /\ answered' = answered \cup {<<c, r.ec>>}

(***************************************************************************)
(* Processor collection.                                                   *)
(***************************************************************************)
\* The objects the listing of getProcessorCollectionWithExpand asks for:
\* processors, and objects that have the UniqueIdentifier decorator only.
ExpandInterfaces == {"Cpu", "UniqueId"}

\* The loop of getProcessorCollectionWithExpand over the sorted cpu ids.
RECURSIVE CpuLoop(_, _, _, _, _)
CpuLoop(e, cpus, cpuNameToSubtreeRespMap, expandLevel, cpuMemberCount) ==
  IF cpuMemberCount >= Len(cpus) THEN e
  ELSE LET cpu == cpus[cpuMemberCount + 1]
           cpuMemberPtr == MemberPtr(<<>>, cpuMemberCount)
       IN  CpuLoop(getProcessorData(e, <<>>, cpuMemberPtr,
                                    U8(expandLevel - 1), cpu,
                                    cpuNameToSubtreeRespMap[cpu]),
                   cpus, cpuNameToSubtreeRespMap, expandLevel,
                   cpuMemberCount + 1)

\* Interfaces which imply a D-Bus object represents a Processor (the
\* inventory has no accelerators).
processorInterfaces == {"Cpu"}

\* The members collection_util::getCollectionMembers writes: one reference
\* per resolved id, in sorted order.
RECURSIVE CollectionMembersLoop(_, _, _)
CollectionMembersLoop(e, ids, n) ==
  IF n >= Len(ids) THEN e
  ELSE CollectionMembersLoop(
         Put(e, MemberPtr(<<>>, n) \o <<"@odata.id">>, Join(<<ids[n + 1]>>)),
         ids, n + 1)

\* The continuation of collection_util::getCollectionMembers: the default
\* handler of a collection.  An empty listing is an empty collection, any
\* other error is fatal; the ids are the final path segments, naturally
\* sorted.
getCollectionMembers(c) ==
  /\ Deliverable(c, "CollectionMembers")
  /\ \E r \in Replies(SubTreeNatural(processorInterfaces),
                      SubTreeFaulty(processorInterfaces)) :
       /\ CountFault(c, r, SubTreeFaulty(processorInterfaces))
       /\ IF r.ec = "io_error"
          THEN Commit(c, Put(PutArray(E0, <<"Members">>),
                             <<"Members@odata.count">>, <<Tok(0)>>))
          ELSE IF r.ec # "ok"
          THEN Commit(c, internalError(E0))
          ELSE LET ids == SortIds(IdsOf(r.subtree))
                   e1 == CollectionMembersLoop(PutArray(E0, <<"Members">>),
                                               ids, 0)
               IN  Commit(c, Put(e1, <<"Members@odata.count">>,
                                 <<Tok(Len(ids))>>))

\* GET /redfish/v1/Systems/system/Processors: the efficient handler when
\* $expand is delegated, the default handler otherwise.
requestRoutesProcessorCollection ==
  /\ phase = "idle"
  /\ req.kind = "Processors"
  /\ LET e1 == Put(E0, <<"@odata.id">>, <<"/Processors">>)
         e2 == IF req.expandLevel > 0
               THEN Issue(e1, Call("CpuSubTree", <<>>, <<>>, req.expandLevel,
                                   "mapper", <<>>, <<>>, <<>>, <<>>, NoMap,
                                   {}))
               ELSE Issue(e1, Call("CollectionMembers", <<>>, <<>>, 0,
                                   "mapper", <<>>, <<>>, <<>>, <<>>, NoMap,
                                   {}))
     IN  /\ doc' = e2.doc
         /\ inflight' = e2.calls
         /\ issued' = e2.calls
         /\ phase' = "running"
  /\ UNCHANGED <<task, req, world, resStatus, faults, answered, hap>>

\* The continuation of getProcessorCollectionWithExpand.
getProcessorCollectionWithExpand(c) ==
  /\ Deliverable(c, "CpuSubTree")
  /\ \E r \in Replies(SubTreeNatural(ExpandInterfaces),
                      SubTreeFaulty(ExpandInterfaces)) :
       /\ CountFault(c, r, SubTreeFaulty(ExpandInterfaces))
       /\ IF r.ec = "io_error"
          THEN Commit(c, Put(PutArray(E0, <<"Members">>),
                             <<"Members@odata.count">>, <<Tok(0)>>))
          ELSE IF r.ec # "ok"
          THEN Commit(c, internalError(E0))
          ELSE LET e1 == Put(E0, <<"@odata.id">>, <<"/Processors">>)
                   cpus == SortIds(IdsOf(r.subtree))
                   e2 == CpuLoop(e1, cpus, IdToSubtreeRespMap(r.subtree),
                                 c.level, 0)
               IN  Commit(c, Put(e2, <<"Members@odata.count">>,
                                 <<Tok(Len(cpus))>>))

\* The continuation of getCpuDataByService.
getCpuDataByServiceCb(c) ==
  /\ Deliverable(c, "CpuManagedObjects")
  /\ \E r \in Replies(ManagedNatural(c.svc), ManagedFaulty(c.svc)) :
       /\ CountFault(c, r, ManagedFaulty(c.svc))
       /\ IF r.ec # "ok"
          THEN Commit(c, internalError(E0))
          ELSE LET e1 == Put(E0, c.ptr \o <<"Id">>, c.pid)
                   props == PropsIn(r.objs, c.path)
                   \* getCpuDataByInterface for the object itself
                   e2 == IF props = "none" THEN e1
                         ELSE Put(Put(e1, c.ptr \o <<"Status", "State">>,
                                      <<"Enabled">>),
                                  c.ptr \o <<"Status", "Health">>, <<"OK">>)
               IN  IF props = "malformed"
                   THEN Commit(c, internalError(e2))
                   ELSE IF props = "ok"
                   THEN Commit(c, Put(e2, c.ptr \o <<"Socket">>, Join(c.path)))
                   ELSE Commit(c, e2)

(***************************************************************************)
(* One processor.                                                          *)
(***************************************************************************)
\* std::string::ends_with
EndsWith(str, suffix) ==
  /\ Len(suffix) <= Len(str)
  /\ SubSeq(str, Len(str) - Len(suffix) + 1, Len(str)) = suffix

\* GET /redfish/v1/Systems/system/Processors/<processorId>:
\* getProcessorObject up to its D-Bus call.
requestRoutesProcessor ==
  /\ phase = "idle"
  /\ req.kind = "Processor"
  /\ LET e1 == Issue(E0, Call("ProcessorSubTree", <<>>, <<>>, 0, "mapper",
                              req.processorId, <<>>, <<>>, <<>>, NoMap, {}))
     IN  /\ inflight' = e1.calls
         /\ issued' = e1.calls
         /\ phase' = "running"
  /\ UNCHANGED <<task, req, world, doc, resStatus, faults, answered, hap>>

\* The listed objects getProcessorObject takes for the processor: their path
\* ends with the id and they have a processor interface.
IsProcessorObject(o, processorId) ==
  EndsWith(Join(o.path), processorId) /\ o.kind = "Cpu"

\* Variant: without a match the handler is passed over and nothing is
\* reported.
getProcessorObjectSilent(c) ==
  /\ Deliverable(c, "ProcessorSubTree")
  /\ \E r \in Replies(SubTreeNatural({"Cpu", "Other", "UniqueId"}),
                      SubTreeFaulty({"Cpu", "Other", "UniqueId"})) :
       /\ CountFault(c, r, SubTreeFaulty({"Cpu", "Other", "UniqueId"}))
       /\ IF r.ec # "ok"
          THEN Commit(c, internalError(E0))
          ELSE LET found == {i \in DOMAIN r.subtree :
                               IsProcessorObject(r.subtree[i], c.pid)}
               IN  IF found = {}
                   THEN Commit(c, E0)
                   ELSE Commit(c, getProcessorData(
                                    E0, <<>>, <<>>, 0, c.pid,
                                    r.subtree[CHOOSE i \in found :
                                                \A j \in found : i <= j]))

\* The continuation of getProcessorObject: the handler (getProcessorData with
\* budget 0) is called for the first listed object that matches.
getProcessorObject(c) ==
  /\ Deliverable(c, "ProcessorSubTree")
  /\ \E r \in Replies(SubTreeNatural({"Cpu", "Other", "UniqueId"}),
                      SubTreeFaulty({"Cpu", "Other", "UniqueId"})) :
       /\ CountFault(c, r, SubTreeFaulty({"Cpu", "Other", "UniqueId"}))
       /\ IF r.ec # "ok"
          THEN Commit(c, internalError(E0))
          ELSE LET found == {i \in DOMAIN r.subtree :
                               IsProcessorObject(r.subtree[i], c.pid)}
               IN  IF found = {}
                   THEN Commit(c, resourceNotFound(E0))
                   ELSE Commit(c, getProcessorData(
                                    E0, <<>>, <<>>, 0, c.pid,
                                    r.subtree[CHOOSE i \in found :
                                                \A j \in found : i <= j]))

(***************************************************************************)
(* Core sub-collection of one processor.                                   *)
(***************************************************************************)
\* The process has dereferenced an invalid iterator and died: no response.
Crash(c) ==
  /\ phase' = "crashed"
  /\ UNCHANGED <<task, req, world, doc, resStatus, inflight, issued, hap>>

\* Variant: "no such relation" is answered like any other error.
getSubProcessorCoreCollectionWithExpandEndpointsStrict(c) ==
  /\ Deliverable(c, "CoreEndpoints")
  /\ \E r \in Replies(AssocNatural(c.path), AssocFaulty(c.path)) :
       /\ CountFault(c, r, AssocFaulty(c.path))
       /\ IF r.ec # "ok"
          THEN Commit(c, internalError(E0))
          ELSE Commit(c, Issue(E0, [c EXCEPT !.kind = "CoreSubTree",
                                             !.eps = r.eps]))

\* The continuation of the endpoints request of
\* getSubProcessorCoreCollectionWithExpand.
getSubProcessorCoreCollectionWithExpandEndpoints(c) ==
  /\ Deliverable(c, "CoreEndpoints")
  /\ \E r \in Replies(AssocNatural(c.path), AssocFaulty(c.path)) :
       /\ CountFault(c, r, AssocFaulty(c.path))
       /\ IF r.ec = "io_error"
          THEN Commit(c, Put(PutArray(E0, c.ptr \o <<"Members">>),
                             c.ptr \o <<"Members@odata.count">>, <<Tok(0)>>))
          ELSE IF r.ec # "ok"
          THEN Commit(c, internalError(E0))
          ELSE Commit(c, Issue(E0, [c EXCEPT !.kind = "CoreSubTree",
                                             !.eps = r.eps]))

RECURSIVE CoreLoop(_, _, _, _)

\* Variant: a core whose property data is malformed ends the loop.
CoreLoopAbortOnError(e, c, dbusData, coreMemberCount) ==
  IF coreMemberCount >= Len(c.ids) THEN e
  ELSE LET coreId == c.ids[coreMemberCount + 1]
           coreMemberPtr == MemberPtr(c.ptr, coreMemberCount)
           core == c.map[coreId]
           props == PropsIn(dbusData, core.path)
       IN  IF c.level > 0
           THEN IF core.svcs = <<>> \/ props = "malformed"
                THEN internalError(e)
                ELSE CoreLoop(
                       getCpuCoreDataByService(
                         e, coreMemberPtr, U8(c.level - 1), c.pid, coreId,
                         props, core.path),
                       c, dbusData, coreMemberCount + 1)
           ELSE CoreLoop(Put(e, coreMemberPtr \o <<"@odata.id">>,
                             Join(<<c.pid, SUB, coreId>>)),
                         c, dbusData, coreMemberCount + 1)

\* The loop over the sorted core ids in the GetManagedObjects continuation.
CoreLoop(e, c, dbusData, coreMemberCount) ==
  IF coreMemberCount >= Len(c.ids) THEN e
  ELSE LET coreId == c.ids[coreMemberCount + 1]
           coreMemberPtr == MemberPtr(c.ptr, coreMemberCount)
           core == c.map[coreId]
       IN  IF c.level > 0
           THEN IF core.svcs = <<>>
                THEN internalError(e)
                ELSE CoreLoop(
                       getCpuCoreDataByService(
                         e, coreMemberPtr, U8(c.level - 1), c.pid, coreId,
                         PropsIn(dbusData, core.path), core.path),
                       c, dbusData, coreMemberCount + 1)
           ELSE CoreLoop(Put(e, coreMemberPtr \o <<"@odata.id">>,
                             Join(<<c.pid, SUB, coreId>>)),
                         c, dbusData, coreMemberCount + 1)

\* After the listing: the bulk retrieval is requested from serviceName, then
\* the count is written.
CoreCollectionFetch(c, e, cores, map, serviceName) ==
  LET e1 == Issue(e, [c EXCEPT !.kind = "CoreManagedObjects",
                               !.svc = serviceName, !.ids = cores,
                               !.map = map])
  IN  Commit(c, Put(e1, c.ptr \o <<"Members@odata.count">>,
                    <<Tok(Len(cores))>>))

\* The continuation of the GetSubTree request of
\* getSubProcessorCoreCollectionWithExpand.
getSubProcessorCoreCollectionWithExpandSubTree(c) ==
  /\ Deliverable(c, "CoreSubTree")
  /\ \E r \in Replies(SubTreeNatural({"CpuCore"}), SubTreeFaulty({"CpuCore"})) :
       /\ CountFault(c, r, SubTreeFaulty({"CpuCore"}))
       /\ IF r.ec = "io_error"
          THEN Commit(c, Put(PutArray(E0, c.ptr \o <<"Members">>),
                             c.ptr \o <<"Members@odata.count">>, <<Tok(0)>>))
          ELSE IF r.ec # "ok"
          THEN Commit(c, internalError(E0))
          ELSE LET e1 == Put(E0, c.ptr \o <<"@odata.id">>, Join(<<c.pid, SUB>>))
                   listed == FilterEndpoints(r.subtree, c.eps)
                   cores == SortIds(IdsOf(listed))
                   map == IdToSubtreeRespMap(listed)
               IN  IF listed = <<>>
                   THEN \* coreIdToSubtreeRespMap.begin() of an empty map is
                        \* dereferenced: undefined behaviour.
                        \/ Crash(c)
                        \/ Commit(c, internalError(e1))
                        \/ \E garbage \in Services :
                             CoreCollectionFetch(c, e1, cores, map, garbage)
                   ELSE \* begin() of an unordered_map: any of its entries.
                        \E first \in Range(listed) :
                          IF first.svcs = <<>>
                          THEN Commit(c, internalError(e1))
                          ELSE CoreCollectionFetch(c, e1, cores, map,
                                                   first.svcs[1])

\* The continuation of the GetManagedObjects request of
\* getSubProcessorCoreCollectionWithExpand.
getSubProcessorCoreCollectionWithExpandManagedObjects(c) ==
  /\ Deliverable(c, "CoreManagedObjects")
  /\ \E r \in Replies(ManagedNatural(c.svc), ManagedFaulty(c.svc)) :
       /\ CountFault(c, r, ManagedFaulty(c.svc))
       /\ IF r.ec # "ok"
          THEN Commit(c, internalError(E0))
          ELSE Commit(c, CoreLoop(E0, c, r.objs, 0))

(***************************************************************************)
(* Thread sub-collection of one core.                                      *)
(***************************************************************************)
\* The continuation of the endpoints request of
\* getSubProcessorThreadCollectionWithExpand.
getSubProcessorThreadCollectionWithExpandEndpoints(c) ==
  /\ Deliverable(c, "ThreadEndpoints")
  /\ \E r \in Replies(AssocNatural(c.path), AssocFaulty(c.path)) :
       /\ CountFault(c, r, AssocFaulty(c.path))
       /\ IF r.ec = "io_error"
          THEN Commit(c, Put(PutArray(E0, c.ptr \o <<"Members">>),
                             c.ptr \o <<"Members@odata.count">>, <<Tok(0)>>))
          ELSE IF r.ec # "ok"
          THEN Commit(c, internalError(E0))
          ELSE Commit(c, Issue(E0, [c EXCEPT !.kind = "ThreadSubTree",
                                             !.eps = r.eps]))

\* The loop over the sorted thread ids in the GetManagedObjects continuation.
RECURSIVE ThreadLoop(_, _, _, _)
ThreadLoop(e, c, dbusData, threadMemberCount) ==
  IF threadMemberCount >= Len(c.ids) THEN e
  ELSE LET threadId == c.ids[threadMemberCount + 1]
           threadMemberPtr == MemberPtr(c.ptr, threadMemberCount)
           thread == c.map[threadId]
       IN  IF c.level > 0
           THEN IF thread.svcs = <<>>
                THEN internalError(e)
                ELSE ThreadLoop(
                       getCoreThreadDataByService(
                         e, threadMemberPtr, c.pid, c.cid, threadId,
                         PropsIn(dbusData, thread.path), thread.path),
                       c, dbusData, threadMemberCount + 1)
           ELSE ThreadLoop(Put(e, threadMemberPtr \o <<"@odata.id">>,
                               Join(<<c.pid, SUB, c.cid, SUB, threadId>>)),
                           c, dbusData, threadMemberCount + 1)

ThreadCollectionFetch(c, e, threads, map, serviceName) ==
  LET e1 == Issue(e, [c EXCEPT !.kind = "ThreadManagedObjects",
                               !.svc = serviceName, !.ids = threads,
                               !.map = map])
  IN  Commit(c, Put(e1, c.ptr \o <<"Members@odata.count">>,
                    <<Tok(Len(threads))>>))

\* The continuation of the GetSubTree request of
\* getSubProcessorThreadCollectionWithExpand.
getSubProcessorThreadCollectionWithExpandSubTree(c) ==
  /\ Deliverable(c, "ThreadSubTree")
  /\ \E r \in Replies(SubTreeNatural({"CpuThread"}),
                      SubTreeFaulty({"CpuThread"})) :
       /\ CountFault(c, r, SubTreeFaulty({"CpuThread"}))
       /\ IF r.ec = "io_error"
          THEN Commit(c, Put(PutArray(E0, c.ptr \o <<"Members">>),
                             c.ptr \o <<"Members@odata.count">>, <<Tok(0)>>))
          ELSE IF r.ec # "ok"
          THEN Commit(c, internalError(E0))
          ELSE LET e1 == Put(E0, c.ptr \o <<"@odata.id">>,
                             Join(<<c.pid, SUB, c.cid, SUB>>))
                   listed == FilterEndpoints(r.subtree, c.eps)
                   threads == SortIds(IdsOf(listed))
                   map == IdToSubtreeRespMap(listed)
               IN  IF listed = <<>>
                   THEN \/ Crash(c)
                        \/ Commit(c, internalError(e1))
                        \/ \E garbage \in Services :
                             ThreadCollectionFetch(c, e1, threads, map, garbage)
                   ELSE \E first \in Range(listed) :
                          IF first.svcs = <<>>
                          THEN Commit(c, internalError(e1))
                          ELSE ThreadCollectionFetch(c, e1, threads, map,
                                                     first.svcs[1])

\* The continuation of the GetManagedObjects request of
\* getSubProcessorThreadCollectionWithExpand.
getSubProcessorThreadCollectionWithExpandManagedObjects(c) ==
  /\ Deliverable(c, "ThreadManagedObjects")
  /\ \E r \in Replies(ManagedNatural(c.svc), ManagedFaulty(c.svc)) :
       /\ CountFault(c, r, ManagedFaulty(c.svc))
       /\ IF r.ec # "ok"
          THEN Commit(c, internalError(E0))
          ELSE Commit(c, ThreadLoop(E0, c, r.objs, 0))

(***************************************************************************)
(* Memory collection.                                                      *)
(***************************************************************************)
\* assembleDimmProperties for the interfaces of one DIMM object: the
\* interface with the DIMM's own data, and one more that always unpacks.
assembleDimmProperties(e, dimmId, props, dimmPath, jsonPtr) ==
  LET e1 == IF props = "malformed" THEN internalError(e)
            ELSE Put(e, jsonPtr \o <<"SerialNumber">>, Join(dimmPath))
  IN  Put(e1, jsonPtr \o <<"@odata.id">>, Join(<<dimmId>>))

\* std::optional dimmId of the memory handlers: the id the request names
\* (a sequence of one), or nothing for the collection.
givenDimmId == IF req.kind = "Dimm" THEN <<req.dimmId>> ELSE <<>>

RECURSIVE DimmLoop(_, _)

\* Variant: an entry becomes a member whatever interfaces it has.
DimmLoopAnyInterface(e, objects) ==
  IF objects = <<>> THEN e
  ELSE LET o == Head(objects)
           thisDimmID == filename(o.path)
           index == ArrLen(e.doc, <<"Members">>)
           ptr == IF givenDimmId = <<>> THEN <<"Members", Tok(index)>>
                  ELSE <<>>
           e1 == [e EXCEPT !.hap.dimmToPtr = (thisDimmID :> ptr) @@ @]
           e2 == Put(e1, ptr \o <<"Id">>, thisDimmID)
           e3 == Put(Put(e2, ptr \o <<"Status", "State">>, <<"Enabled">>),
                     ptr \o <<"Status", "Health">>, <<"OK">>)
       IN  IF \/ thisDimmID = <<>>
              \/ (givenDimmId # <<>> /\ givenDimmId[1] # thisDimmID)
           THEN DimmLoop(e, Tail(objects))
           ELSE DimmLoop(
                  assembleDimmProperties(
                    e3, thisDimmID,
                    IF o.path \in world.malformed THEN "malformed" ELSE "ok",
                    o.path, ptr),
                  Tail(objects))

\* The loop of getAllDimmsCallback over the objects of the reply.
DimmLoop(e, objects) ==
  IF objects = <<>> THEN e
  ELSE LET o == Head(objects)
           thisDimmID == filename(o.path)
           index == ArrLen(e.doc, <<"Members">>)
           ptr == IF givenDimmId = <<>> THEN <<"Members", Tok(index)>>
                  ELSE <<>>
           e1 == [e EXCEPT !.hap.dimmToPtr = (thisDimmID :> ptr) @@ @]
           e2 == Put(e1, ptr \o <<"Id">>, thisDimmID)
           e3 == Put(Put(e2, ptr \o <<"Status", "State">>, <<"Enabled">>),
                     ptr \o <<"Status", "Health">>, <<"OK">>)
       IN  IF \/ thisDimmID = <<>>
              \/ (givenDimmId # <<>> /\ givenDimmId[1] # thisDimmID)
              \/ o.kind # "Dimm"
           THEN DimmLoop(e, Tail(objects))
           ELSE DimmLoop(
                  assembleDimmProperties(
                    e3, thisDimmID,
                    IF o.path \in world.malformed THEN "malformed" ELSE "ok",
                    o.path, ptr),
                  Tail(objects))

\* getAllDimms
getAllDimms(e, serviceToObjectManagerPath) ==
  LET e1 == IF givenDimmId # <<>> THEN e
            ELSE Put(PutArray(e, <<"Members">>), <<"Members@odata.count">>,
                     <<Tok(0)>>)
  IN  [e1 EXCEPT !.calls = @ \cup
         {Call("DimmManagedObjects", <<>>, <<>>, 0, svc, <<>>, <<>>, <<>>,
               <<>>, NoMap, {}) : svc \in serviceToObjectManagerPath}]

\* HealthAndPartition::getAllPartitions
getAllPartitions(e, partitionServiceToObjectManagerPath) ==
  [e EXCEPT !.calls = @ \cup
     {Call("PartitionManagedObjects", <<>>, <<>>, 0, svc, <<>>, <<>>, <<>>,
           <<>>, NoMap, {}) : svc \in partitionServiceToObjectManagerPath}]

\* GET /redfish/v1/Systems/system/Memory with $expand delegated.
requestRoutesMemoryCollection ==
  /\ phase = "idle"
  /\ req.kind = "Memory"
  /\ req.expandLevel > 0
  /\ LET e1 == Put(E0, <<"@odata.id">>, <<"/Memory">>)
         e2 == Issue(e1, Call("DimmSubTree", <<>>, <<>>, req.expandLevel,
                              "mapper", <<>>, <<>>, <<>>, <<>>, NoMap, {}))
     IN  /\ doc' = e2.doc
         /\ inflight' = e2.calls
         /\ issued' = e2.calls
         /\ phase' = "running"
  /\ UNCHANGED <<task, req, world, resStatus, faults, answered, hap>>

ServicesOf(seq, kind) ==
  UNION {Range(o.svcs) : o \in {q \in Range(seq) : q.kind = kind}}

\* GET /redfish/v1/Systems/system/Memory/<dimmId>: getDimmData for one DIMM,
\* up to its D-Bus call.
requestRoutesMemory ==
  /\ phase = "idle"
  /\ req.kind = "Dimm"
  /\ LET e1 == Issue(E0, Call("DimmSubTree", <<>>, <<>>, 0, "mapper", <<>>,
                              <<>>, <<>>, <<>>, NoMap, {}))
     IN  /\ inflight' = e1.calls
         /\ issued' = e1.calls
         /\ phase' = "running"
  /\ UNCHANGED <<task, req, world, doc, resStatus, faults, answered, hap>>

\* The DIMM objects of a listing that the request is about: all of them, or
\* those with the given id.
IsGivenDimm(o) ==
  o.kind = "Dimm" /\ (givenDimmId = <<>> \/ filename(o.path) = givenDimmId[1])

IsGivenPartition(o) ==
  /\ o.kind = "Partition"
  /\ (givenDimmId = <<>> \/ filename(parent_path(o.path)) = givenDimmId[1])

\* The entries of the listing the loop of getDimmData looks at: with a
\* dimmId the loop ends after the first entry that is the given DIMM.
LookedAt(subtree) ==
  IF givenDimmId = <<>> \/ \A i \in DOMAIN subtree : ~IsGivenDimm(subtree[i])
  THEN subtree
  ELSE SubSeq(subtree, 1,
              CHOOSE i \in DOMAIN subtree :
                 /\ IsGivenDimm(subtree[i])
                 /\ \A j \in 1..(i - 1) : ~IsGivenDimm(subtree[j]))

\* The continuation of getDimmData.
getDimmData(c) ==
  /\ Deliverable(c, "DimmSubTree")
  /\ \E r \in Replies(SubTreeNatural({"Dimm", "Partition"}),
                      SubTreeFaulty({"Dimm", "Partition"})) :
       /\ CountFault(c, r, SubTreeFaulty({"Dimm", "Partition"}))
       /\ IF r.ec # "ok"
          THEN Commit(c, internalError(E0))
          ELSE LET seen == Range(LookedAt(r.subtree))
                   foundGivenDimm == \E o \in seen : IsGivenDimm(o)
               IN  IF givenDimmId # <<>> /\ ~foundGivenDimm
                   THEN Commit(c, resourceNotFound(E0))
                   ELSE Commit(c, Issue(E0,
                          [c EXCEPT !.kind = "ObjectManagerSubTree",
                                    !.dimmServices =
                                       UNION {Range(o.svcs) :
                                                o \in {q \in seen :
                                                         IsGivenDimm(q)}},
                                    !.partitionServices =
                                       UNION {Range(o.svcs) :
                                                o \in {q \in seen :
                                                         IsGivenPartition(q)}}]))

getObjectManagerPathsGivenServicesCallBack(c) ==
  /\ Deliverable(c, "ObjectManagerSubTree")
  /\ \E r \in Replies(ObjectManagerNatural, ObjectManagerFaulty) :
       /\ CountFault(c, r, ObjectManagerFaulty)
       /\ IF r.ec # "ok"
          THEN Commit(c, internalError(E0))
          ELSE LET e1 == [E0 EXCEPT !.hap = [NoHap EXCEPT !.alive = TRUE]]
                   e2 == getAllPartitions(e1, c.partitionServices \cap r.oms)
               IN  Commit(c, getAllDimms(e2, c.dimmServices \cap r.oms))

\* The continuation of HealthAndPartition::getAllPartitions.
getAllPartitionsCb(c) ==
  /\ Deliverable(c, "PartitionManagedObjects")
  /\ \E r \in Replies(ManagedNatural(c.svc), ManagedFaulty(c.svc)) :
       /\ CountFault(c, r, ManagedFaulty(c.svc))
       /\ IF r.ec # "ok"
          THEN Commit(c, internalError(E0))
          ELSE \E objects \in Perms(r.objs) :
                 Commit(c, [E0 EXCEPT !.hap.objectsForPartition = @ \o objects])

getAllDimmsCallback(c) ==
  /\ Deliverable(c, "DimmManagedObjects")
  /\ \E r \in Replies(ManagedNatural(c.svc), ManagedFaulty(c.svc)) :
       /\ CountFault(c, r, ManagedFaulty(c.svc))
       /\ IF r.ec # "ok"
          THEN Commit(c, internalError(E0))
          ELSE \E objects \in Perms(r.objs) :
                 LET e1 == DimmLoop(E0, objects)
                 IN  IF givenDimmId # <<>> THEN Commit(c, e1)
                     ELSE Commit(c, Put(e1, <<"Members@odata.count">>,
                                        <<Tok(ArrLen(e1.doc, <<"Members">>))>>))

(***************************************************************************)
(* Drive collection of a chassis.                                          *)
(***************************************************************************)
\* GET /redfish/v1/Chassis/<chassisId>/Drives: chassisDriveCollectionGet up
\* to its D-Bus call, the listing of the boards and chassis.
requestRoutesChassisDrive ==
  /\ phase = "idle"
  /\ req.kind = "ChassisDrives"
  /\ LET e1 == Issue(E0, Call("ChassisSubTree", <<>>, <<>>, 0, "mapper",
                              <<>>, <<>>, <<>>, <<>>, NoMap, {}))
     IN  /\ inflight' = e1.calls
         /\ issued' = e1.calls
         /\ phase' = "running"
  /\ UNCHANGED <<task, req, world, doc, resStatus, faults, answered, hap>>

\* The listing of the chassis can also fail with host_unreachable.
ChassisSubTreeFaulty ==
  SubTreeFaulty({"Chassis"}) \cup {[ec |-> "host_unreachable", subtree |-> <<>>]}

\* The loop of chassisDriveCollectionGet over the listed paths: for every
\* chassis of the requested name the endpoints of <path>/drive are requested.
RECURSIVE ChassisLoop(_, _, _)
ChassisLoop(e, subtree, chassisId) ==
  IF subtree = <<>> THEN e
  ELSE LET o == Head(subtree)
           e1 == Put(e, <<"@odata.id">>, Join(<<chassisId, <<"Drives">>>>))
           e2 == Issue(e1, Call("DriveEndpoints", <<>>, <<>>, 0, "mapper",
                                <<>>, <<>>, o.path, <<>>, NoMap, {}))
       IN  IF filename(o.path) # chassisId \/ o.svcs = <<>>
           THEN ChassisLoop(e, Tail(subtree), chassisId)
           ELSE ChassisLoop(e2, Tail(subtree), chassisId)

\* The continuation of the listing of chassisDriveCollectionGet.
chassisDriveCollectionGet(c) ==
  /\ Deliverable(c, "ChassisSubTree")
  /\ \E r \in Replies(SubTreeNatural({"Chassis"}), ChassisSubTreeFaulty) :
       /\ CountFault(c, r, ChassisSubTreeFaulty)
       /\ IF r.ec = "host_unreachable"
          THEN Commit(c, resourceNotFound(E0))
          ELSE IF r.ec # "ok"
          THEN Commit(c, internalError(E0))
          ELSE Commit(c, ChassisLoop(E0, r.subtree, req.chassisId))

\* The loop of the association continuation over the sorted leaf names.
RECURSIVE DriveLoop(_, _, _, _)
DriveLoop(e, leafNames, chassisId, i) ==
  IF i > Len(leafNames) THEN e
  ELSE DriveLoop(
         Put(e, <<"Members", Tok(ArrLen(e.doc, <<"Members">>)), "@odata.id">>,
             Join(<<chassisId, <<"Drives">>, leafNames[i]>>)),
         leafNames, chassisId, i + 1)

\* The continuation of the association look-up of chassisDriveCollectionGet:
\* an error code is logged and the (empty) reply is used all the same.
chassisDriveCollectionGetAssociation(c) ==
  /\ Deliverable(c, "DriveEndpoints")
  /\ \E r \in Replies(AssocNatural(c.path), AssocFaulty(c.path)) :
       /\ CountFault(c, r, AssocFaulty(c.path))
       /\ \E resp \in Perms(r.eps) :
            LET e1 == PutArray(E0, <<"Members">>)
                leafNames == SortIds([i \in DOMAIN resp |-> filename(resp[i])])
                e2 == DriveLoop(e1, leafNames, req.chassisId, 1)
            IN  Commit(c, Put(e2, <<"Members@odata.count">>,
                              <<Tok(Len(resp))>>))

(***************************************************************************)
(* One core of a processor.                                                *)
(***************************************************************************)
\* std::set_intersection over two ranges of path strings, as the merge it
\* is: it advances past the smaller head and keeps equal heads.  Both ranges
\* are handed over in the order the mapper replied in.
RECURSIVE set_intersection(_, _)
set_intersection(objectPaths, subTreePaths) ==
  IF objectPaths = <<>> \/ subTreePaths = <<>> THEN <<>>
  ELSE LET cmp == LexCmp(Join(Head(objectPaths)), Join(Head(subTreePaths)))
       IN  IF cmp < 0 THEN set_intersection(Tail(objectPaths), subTreePaths)
           ELSE IF cmp > 0
           THEN set_intersection(objectPaths, Tail(subTreePaths))
           ELSE <<Head(objectPaths)>>
                  \o set_intersection(Tail(objectPaths), Tail(subTreePaths))

\* The paths of a listing, in its order.
PathsOf(subtree) == [i \in DOMAIN subtree |-> subtree[i].path]

\* The first path of a sequence whose last segment is id; <<>> when none is.
FirstNamed(paths, id) ==
  LET found == {i \in DOMAIN paths : filename(paths[i]) = id}
  IN  IF found = {} THEN <<>>
      ELSE paths[CHOOSE i \in found : \A j \in found : i <= j]

\* The endpoints property of the association <path>/containing, a vector in
\* the order the mapper holds it.
AssocListNatural(path) ==
  IF Endpoints(path) = {}
  THEN {[ec |-> "io_error", paths |-> <<>>]}
  ELSE {[ec |-> "ok", paths |-> s] : s \in Perms(Endpoints(path))}

\* GetObject of the mapper for a path: the services of the object.
GetObjectNatural(path) ==
  {[ec |-> "ok", svcs |-> o.svcs] : o \in {q \in world.objs : q.path = path}}

GetObjectFaulty ==
  {[ec |-> "other", svcs |-> <<>>], [ec |-> "io_error", svcs |-> <<>>]}

\* GET /redfish/v1/Systems/system/Processors/<processorId>/SubProcessors/
\* <coreId>: getProcessorPaths up to its D-Bus call.
requestRoutesSubProcessorCore ==
  /\ phase = "idle"
  /\ req.kind = "Core"
  /\ LET e1 == Issue(E0, Call("CpuPaths", <<>>, <<>>, 0, "mapper",
                              req.processorId, req.coreId, <<>>, <<>>,
                              NoMap, {}))
     IN  /\ inflight' = e1.calls
         /\ issued' = e1.calls
         /\ phase' = "running"
  /\ UNCHANGED <<task, req, world, doc, resStatus, faults, answered, hap>>

\* getSubProcessorCoreData, up to its first D-Bus call: the handler that
\* getProcessorPaths calls with an error code and the processor's path.
getSubProcessorCoreData(e, c, ec, cpuPath) ==
  IF ec = "io_error" THEN resourceNotFound(e)
  ELSE IF ec # "ok" THEN internalError(e)
  ELSE Issue(e, [c EXCEPT !.kind = "CoreDataEndpoints", !.path = cpuPath])

\* The continuation of getProcessorPaths: the handler gets the first listed
\* path whose last segment is the processor id, or an error code.
getProcessorPaths(c) ==
  /\ Deliverable(c, "CpuPaths")
  /\ \E r \in Replies(SubTreeNatural({"Cpu"}), SubTreeFaulty({"Cpu"})) :
       /\ CountFault(c, r, SubTreeFaulty({"Cpu"}))
       /\ LET cpuPath == FirstNamed(PathsOf(r.subtree), c.pid)
          IN  IF r.ec # "ok"
              THEN Commit(c, getSubProcessorCoreData(E0, c, r.ec, <<>>))
              ELSE IF cpuPath = <<>>
              THEN Commit(c, getSubProcessorCoreData(
                               E0, c, "no_such_file_or_directory", <<>>))
              ELSE Commit(c, getSubProcessorCoreData(E0, c, "ok", cpuPath))

\* The continuation of the endpoints request of getSubProcessorCoreData.
getSubProcessorCoreDataEndpoints(c) ==
  /\ Deliverable(c, "CoreDataEndpoints")
  /\ \E r \in Replies(AssocListNatural(c.path), AssocFaulty(c.path)) :
       /\ CountFault(c, r, AssocFaulty(c.path))
       /\ IF r.ec = "io_error" THEN Commit(c, resourceNotFound(E0))
          ELSE IF r.ec # "ok" THEN Commit(c, internalError(E0))
          ELSE Commit(c, Issue(E0, [c EXCEPT !.kind = "CoreDataSubTreePaths",
                                             !.ids = r.paths]))

\* The continuation of the GetSubTreePaths request of
\* getSubProcessorCoreData.
getSubProcessorCoreDataSubTreePaths(c) ==
  /\ Deliverable(c, "CoreDataSubTreePaths")
  /\ \E r \in Replies(SubTreeNatural({"CpuCore"}), SubTreeFaulty({"CpuCore"})) :
       /\ CountFault(c, r, SubTreeFaulty({"CpuCore"}))
       /\ IF r.ec = "io_error" THEN Commit(c, resourceNotFound(E0))
          ELSE IF r.ec # "ok" THEN Commit(c, internalError(E0))
          ELSE LET corePaths == set_intersection(c.ids, PathsOf(r.subtree))
                   corePath == FirstNamed(corePaths, c.cid)
               IN  IF corePath = <<>>
                   THEN Commit(c, resourceNotFound(E0))
                   ELSE Commit(c, Issue(E0, [c EXCEPT
                                               !.kind = "CoreDataGetObject",
                                               !.path = corePath,
                                               !.ids = <<>>]))

\* The continuation of the GetObject request of getSubProcessorCoreData.
getSubProcessorCoreDataGetObject(c) ==
  /\ Deliverable(c, "CoreDataGetObject")
  /\ \E r \in Replies(GetObjectNatural(c.path), GetObjectFaulty) :
       /\ CountFault(c, r, GetObjectFaulty)
       /\ IF r.ec = "io_error" THEN Commit(c, resourceNotFound(E0))
          ELSE IF r.ec # "ok" THEN Commit(c, internalError(E0))
          ELSE IF r.svcs = <<>> THEN Commit(c, internalError(E0))
          ELSE Commit(c, Issue(E0, [c EXCEPT !.kind = "CoreDataManagedObjects",
                                             !.svc = r.svcs[1]]))

\* The continuation of the GetManagedObjects request of
\* getSubProcessorCoreData.
getSubProcessorCoreDataManagedObjects(c) ==
  /\ Deliverable(c, "CoreDataManagedObjects")
  /\ \E r \in Replies(ManagedNatural(c.svc), ManagedFaulty(c.svc)) :
       /\ CountFault(c, r, ManagedFaulty(c.svc))
       /\ IF r.ec # "ok" THEN Commit(c, internalError(E0))
          ELSE IF PropsIn(r.objs, c.path) = "none"
          THEN Commit(c, resourceNotFound(E0))
          ELSE Commit(c, getCpuCoreDataByService(
                           E0, <<>>, 0, c.pid, c.cid,
                           PropsIn(r.objs, c.path), c.path))

(***************************************************************************)
(* The system.                                                             *)
(***************************************************************************)
\* The backends of a scenario: an inventory, and the objects in it whose
\* property data is wrongly typed.
Worlds(U) ==
  UNION {{[objs |-> S, malformed |-> M] :
            M \in {X \in SUBSET {o.path : o \in S} :
                     Cardinality(S) + Cardinality(X) <= MaxScenario}} :
           S \in Inventories(U)}

Requests ==
  [kind : {"Processors"}, expandLevel : 0..canDelegateExpandLevel]
    \cup [kind : {"Memory"}, expandLevel : 1..canDelegateExpandLevelMemory]
    \cup [kind : {"ChassisDrives"}, expandLevel : {0}, chassisId : {H1, H2}]
    \cup [kind : {"Processor"}, expandLevel : {0},
          processorId : {C2, C10, <<"2">>}]
    \cup [kind : {"Dimm"}, expandLevel : {0}, dimmId : {D2, D10}]
    \cup [kind : {"Core"}, expandLevel : {0}, processorId : {C2},
          coreId : {K2, K10}]

Init ==
  /\ req \in Requests
  /\ world \in Worlds(Universe(req.kind))
  /\ doc = <<>>
  /\ resStatus = "200"
  /\ inflight = {}
  /\ issued = {}
  /\ faults = 0
  /\ answered = {}
  /\ phase = "idle"
  /\ hap = NoHap
  /\ task = NoTask

Next ==
  \/ requestRoutesProcessorCollection
  \/ requestRoutesMemoryCollection
  \/ requestRoutesChassisDrive
  \/ requestRoutesProcessor
  \/ requestRoutesMemory
  \/ requestRoutesSubProcessorCore
  \/ \E c \in inflight : getProcessorPaths(c)
  \/ \E c \in inflight : getSubProcessorCoreDataEndpoints(c)
  \/ \E c \in inflight : getSubProcessorCoreDataSubTreePaths(c)
  \/ \E c \in inflight : getSubProcessorCoreDataGetObject(c)
  \/ \E c \in inflight : getSubProcessorCoreDataManagedObjects(c)
  \/ \E c \in inflight : getProcessorObject(c)
  \/ \E c \in inflight : getCollectionMembers(c)
  \/ \E c \in inflight : chassisDriveCollectionGet(c)
  \/ \E c \in inflight : chassisDriveCollectionGetAssociation(c)
  \/ \E c \in inflight : getDimmData(c)
  \/ \E c \in inflight : getObjectManagerPathsGivenServicesCallBack(c)
  \/ \E c \in inflight : getAllPartitionsCb(c)
  \/ \E c \in inflight : getAllDimmsCallback(c)
  \/ \E c \in inflight : getProcessorCollectionWithExpand(c)
  \/ \E c \in inflight : getCpuDataByServiceCb(c)
  \/ \E c \in inflight : getSubProcessorCoreCollectionWithExpandEndpoints(c)
  \/ \E c \in inflight : getSubProcessorCoreCollectionWithExpandSubTree(c)
  \/ \E c \in inflight :
       getSubProcessorCoreCollectionWithExpandManagedObjects(c)
  \/ \E c \in inflight : getSubProcessorThreadCollectionWithExpandEndpoints(c)
  \/ \E c \in inflight : getSubProcessorThreadCollectionWithExpandSubTree(c)
  \/ \E c \in inflight :
       getSubProcessorThreadCollectionWithExpandManagedObjects(c)

Spec == Init /\ [][Next]_vars



(***************************************************************************)
(* Vocabulary of the properties.                                           *)
(***************************************************************************)
\* The text after the last "/" of a link.
LastSegment(s) ==
  LET slashes == {i \in DOMAIN s : s[i] = "/"}
  IN  IF slashes = {} THEN s ELSE SubSeq(s, Max(slashes) + 1, Len(s))

\* The collections of the document that have a member array: the pointers
\* that have "Members" right below.
CollectionsOf(d) ==
  UNION {{SubSeq(p, 1, k - 1) : k \in {j \in DOMAIN p : p[j] = "Members"}} :
           p \in DOMAIN d}

MembersOf(coll) == coll \o <<"Members">>

CountOf(d, coll) == TokIdx(d[coll \o <<"Members@odata.count">>][1])

HasCount(d, coll) == coll \o <<"Members@odata.count">> \in DOMAIN d

\* The stable id of the member a slot holds: the last segment of its link,
\* or its Id.
IdOfSlot(d, slot) ==
  IF slot \o <<"@odata.id">> \in DOMAIN d
  THEN LastSegment(d[slot \o <<"@odata.id">>])
  ELSE IF slot \o <<"Id">> \in DOMAIN d THEN d[slot \o <<"Id">>] ELSE <<>>

\* The ids of the members of a collection, in slot order.
MemberIds(d, coll) ==
  [i \in 1..ArrLen(d, MembersOf(coll)) |->
     IdOfSlot(d, MembersOf(coll) \o <<Tok(i - 1)>>)]

BulkKinds ==
  {"CpuManagedObjects", "CoreManagedObjects", "ThreadManagedObjects",
   "DimmManagedObjects", "PartitionManagedObjects"}

NestedBulkKinds == {"CoreManagedObjects", "ThreadManagedObjects"}

NestedKinds ==
  {"CoreEndpoints", "CoreSubTree", "CoreManagedObjects",
   "ThreadEndpoints", "ThreadSubTree", "ThreadManagedObjects"}

\* The backend object a nested collection was expanded for.
ParentOf(coll) ==
  (CHOOSE c \in issued :
     c.kind \in {"CoreEndpoints", "ThreadEndpoints"} /\ c.ptr = coll).path

\* What the backend holds for a collection: <<path, service>> for every
\* DIMM with an id that a service serves, <<path, "">> for the objects the
\* handler of the processor collection lists, for the drives of
\* the requested chassis, and for the cores
\* or threads below the object the collection was expanded for.
BackendMembers(coll) ==
  IF coll = <<>>
  THEN IF req.kind = "Memory"
       THEN UNION {{<<o.path, svc>> : svc \in Range(o.svcs)} :
                     o \in {q \in ObjsOfKind({"Dimm"}) :
                              filename(q.path) # <<>>}}
       ELSE IF req.kind = "ChassisDrives"
       THEN {<<o.path, "">> :
               o \in {q \in ObjsOfKind({"Drive"}) :
                        filename(parent_path(q.path)) = req.chassisId}}
       ELSE {<<o.path, "">> :
               o \in ObjsOfKind(IF req.kind = "Processors"
                                   /\ req.expandLevel > 0
                                THEN ExpandInterfaces
                                ELSE processorInterfaces)}
  ELSE {<<o.path, "">> :
          o \in {q \in ObjsOfKind({IF Len(coll) = 3 THEN "CpuCore"
                                    ELSE "CpuThread"}) :
                   parent_path(q.path) = ParentOf(coll)}}

Occurrences(seq, x) == Cardinality({i \in DOMAIN seq : seq[i] = x})

\* The number of "SubProcessors" hops from the top-level collection down to
\* a pointer.
SubDepth(ptr) == Cardinality({i \in DOMAIN ptr : ptr[i] = "SubProcessors"})

(***************************************************************************)
(* Properties.                                                             *)
(***************************************************************************)
\* C1: for a fixed set of backend objects the member order of every
\* collection of the finished response is the same whatever the order in
\* which the replies were delivered and listed: it is the one sequence that
\* holds each backend member's id once and is in the comparator's order
\* (runs in which no backend call failed).
C1_Determinism ==
  (phase = "done" /\ faults = 0) =>
     \A coll \in CollectionsOf(doc) :
        LET ids == MemberIds(doc, coll)
            backend == BackendMembers(coll)
        IN  /\ IsSortedIds(ids)
            /\ \A id \in Range(ids) \cup {filename(m[1]) : m \in backend} :
                 Occurrences(ids, id) =
                   Cardinality({m \in backend : filename(m[1]) = id})

\* C1 witness: a finished DIMM collection whose two members came from two
\* services, whose replies arrive in either order.
C1_Witness ==
  /\ phase = "done" /\ faults = 0 /\ req.kind = "Memory"
  /\ MemberIds(doc, <<>>) = <<D2, D10>>
  /\ {c.svc : c \in {x \in issued : x.kind = "DimmManagedObjects"}} = Services

C3_NoFetchAtBudgetZero ==
  \A c \in issued : c.kind \in NestedBulkKinds => c.level > 0

\* C4: every nested expansion call carries a budget one less than that of
\* the call that issues it: a collection hands its budget minus one to its
\* members, a member its budget minus one to its sub-collection, so a
\* collection d hops below the top has the request's level minus 2d.
C4_BudgetDecreasesByOne ==
  \A c \in issued :
     c.kind \in NestedKinds =>
        c.level + 2 * SubDepth(c.ptr) = req.expandLevel

\* C4 witness: a thread collection (two hops down) has been expanded.
C4_Witness ==
  \E c \in issued : c.kind = "ThreadEndpoints" /\ SubDepth(c.ptr) = 2

\* C5: within one expansion call no service gets more than one bulk
\* retrieval.
C5_AtMostOneFetchPerAgent ==
  \A c1 \in issued, c2 \in issued :
     (/\ c1.kind \in BulkKinds /\ c2.kind = c1.kind
      /\ c1.coll = c2.coll /\ c1.svc = c2.svc) => c1 = c2

\* C6: the bulk retrievals of a core or thread collection go to exactly the
\* services that own its members, one each; so do those of the DIMM
\* collection.
C6_OneFetchPerOwningAgent ==
  /\ \A c \in issued :
       (c.kind \in NestedBulkKinds /\ c.ids # <<>>) =>
          LET owners == UNION {Range(c.map[id].svcs) : id \in DOMAIN c.map}
              calls == {x \in issued : x.kind = c.kind /\ x.ptr = c.ptr}
          IN  /\ Cardinality(calls) = Cardinality(owners)
              /\ {x.svc : x \in calls} = owners
  /\ (req.kind = "Memory" /\ HasKey(doc, <<"Members">>) /\ faults = 0) =>
       LET owners == {m[2] : m \in BackendMembers(<<>>)}
           calls == {x \in issued : x.kind = "DimmManagedObjects"}
       IN  /\ Cardinality(calls) = Cardinality(owners)
           /\ {x.svc : x \in calls} = owners

\* C7: the member array of the finished top-level collection has one slot
\* for every distinct resolved path.
C7_SlotsEqualResolvedMembers ==
  (phase = "done" /\ faults = 0 /\ HasKey(doc, <<"Members">>)) =>
     ArrLen(doc, <<"Members">>) =
       Cardinality({m[1] : m \in BackendMembers(<<>>)})

MalformedSibling(c) ==
  /\ c.kind = "CoreManagedObjects" /\ c \notin inflight /\ c.level > 0
  /\ faults = 0
  /\ \E id \in DOMAIN c.map :
        /\ c.map[id].path \in world.malformed
        /\ c.svc \in Range(c.map[id].svcs)

\* C10: when the property data of one member of a core collection is
\* malformed, every sibling whose data the reply holds still gets its
\* content, the collection keeps all its slots and its count is unchanged.
C10_SiblingsKeepContent ==
  \A c \in issued :
     MalformedSibling(c) =>
        /\ ArrLen(doc, MembersOf(c.ptr)) = Len(c.ids)
        /\ CountOf(doc, c.ptr) = Len(c.ids)
        /\ \A i \in DOMAIN c.ids :
              LET core == c.map[c.ids[i]]
                  slot == MembersOf(c.ptr) \o <<Tok(i - 1)>>
              IN  (core.path \notin world.malformed
                     /\ c.svc \in Range(core.svcs)) =>
                    /\ slot \o <<"ProcessorId", "MicrocodeInfo">> \in DOMAIN doc
                    /\ doc[slot \o <<"ProcessorId", "MicrocodeInfo">>]
                         = Join(core.path)

\* C10 witness: a core collection of two, one malformed, the other with its
\* content.
C10_Witness ==
  \E c \in issued :
     /\ MalformedSibling(c) /\ Len(c.ids) = 2
     /\ \E i \in DOMAIN c.ids :
          MembersOf(c.ptr) \o <<Tok(i - 1), "ProcessorId", "MicrocodeInfo">>
            \in DOMAIN doc

\* The response as a whole carries an error: the error object at its root,
\* or a status other than success.
ResponseLevelError == <<"error">> \in DOMAIN doc \/ resStatus # "200"

\* The slot of the top-level collection's member made for the object at path
\* holds an error marker.
SlotLevelError(path) ==
  \E i \in 0..(ArrLen(doc, <<"Members">>) - 1) :
     LET slot == <<"Members", Tok(i)>>
     IN  /\ IdOfSlot(doc, slot) = filename(path)
         /\ \E p \in Below(doc, slot) : p[Len(p)] = "error"

\* C11: when the property data of a member of an expanded collection is
\* malformed and no backend call failed, the error is recorded inside that
\* member's slot and the response as a whole carries no error.
C11_MalformedScopedToSlot ==
  (/\ req.kind \in {"Processors", "Memory"}
   /\ phase = "done" /\ faults = 0 /\ world.malformed # {}
   /\ \A o \in world.objs : Len(o.path) = 2) =>
        /\ ~ResponseLevelError
        /\ \A path \in world.malformed : SlotLevelError(path)

\* C12: when the bulk retrieval from one service has failed in the DIMM
\* collection (the member array exists, so the listing succeeded, and one
\* call failed), the response as a whole carries no error, every DIMM of the
\* backend still has its slot, and the DIMMs no failed service serves have
\* their property data.
C12_FailedAgentScoped ==
  (/\ req.kind = "Memory" /\ phase = "done" /\ faults = 1
   /\ world.malformed = {} /\ HasKey(doc, <<"Members">>)) =>
      /\ ~ResponseLevelError
      /\ \A m \in BackendMembers(<<>>) :
           filename(m[1]) \in Range(MemberIds(doc, <<>>))

\* The endpoints look-up of a nested expansion call was answered with an
\* error other than "no such relation": the call is over, it has neither
\* written a member array nor gone on to list its members.
FailedResolution(c) ==
  /\ c.kind \in {"CoreEndpoints", "ThreadEndpoints"}
  /\ c \notin inflight
  /\ ~HasKey(doc, MembersOf(c.ptr))
  /\ \A x \in issued :
        x.kind \in {"CoreSubTree", "ThreadSubTree"} => x.ptr # c.ptr

\* C13: when the only failure of a run is the failed resolution of one nested
\* expansion call, the fatal result stays with that call: the response as a
\* whole carries no error.
C13_FatalScopedToCall ==
  \A c \in issued :
     (FailedResolution(c) /\ faults = 1 /\ world.malformed = {}) =>
        ~ResponseLevelError

\* The endpoints look-up of a nested expansion call has been answered and
\* the backend holds no relation for it: the answer was "no such relation".
EmptyAssociation(c) ==
  /\ c.kind \in {"CoreEndpoints", "ThreadEndpoints"}
  /\ Endpoints(c.path) = {}

\* C14: the step in which an endpoints look-up is answered with "no such
\* relation" leaves an empty member array and the count 0 at the call's
\* address, and surfaces no error: status and error object stay as they were.
C14_NoRelationIsEmpty ==
  [][\A c \in inflight :
       (EmptyAssociation(c) /\ c \notin inflight' /\ faults' = faults) =>
          /\ MembersOf(c.ptr) \in DOMAIN doc'
          /\ doc'[MembersOf(c.ptr)] = EmptyArray
          /\ ArrLen(doc', MembersOf(c.ptr)) = 0
          /\ HasCount(doc', c.ptr) /\ CountOf(doc', c.ptr) = 0
          /\ resStatus' = resStatus
          /\ (<<"error">> \in DOMAIN doc') = (<<"error">> \in DOMAIN doc)]_vars

\* C14 witness: a processor without cores has got its empty core collection
\* in a response without error.
C14_Witness ==
  \E c \in issued :
     /\ EmptyAssociation(c) /\ c.kind = "CoreEndpoints" /\ c \notin inflight
     /\ faults = 0 /\ ~ResponseLevelError
     /\ MembersOf(c.ptr) \in DOMAIN doc /\ CountOf(doc, c.ptr) = 0

\* C15: the step in which an association look-up is answered with an error
\* other than "no such relation" (the backend holds no relation for the
\* object, so the failed answer is not of that class) makes the call fatal:
\* the response carries the error, and no empty member array is written.
C15_OtherErrorIsFatal ==
  [][\A c \in inflight :
       (/\ c.kind \in {"CoreEndpoints", "ThreadEndpoints", "DriveEndpoints"}
        /\ c \notin inflight' /\ Endpoints(c.path) = {}
        /\ faults' = faults + 1) =>
          /\ resStatus' # "200"
          /\ <<"error">> \in DOMAIN doc'
          /\ MembersOf(c.ptr) \notin DOMAIN doc']_vars

\* C16: in a finished response without failure or malformed data, when no
\* two backend paths share their last segment, every path of the top-level
\* collection appears as one member, once, and the members are in the
\* comparator's order, also when more than one listing holds the path.
C16_PathAppearsOnce ==
  (/\ phase = "done" /\ faults = 0 /\ world.malformed = {}
   /\ HasKey(doc, <<"Members">>)
   /\ \A m \in BackendMembers(<<>>), n \in BackendMembers(<<>>) :
         filename(m[1]) = filename(n[1]) => m[1] = n[1]) =>
      /\ IsSortedIds(MemberIds(doc, <<>>))
      /\ \A m \in BackendMembers(<<>>) :
           Occurrences(MemberIds(doc, <<>>), filename(m[1])) = 1

\* C17: when a DIMM object of the backend has an empty id and the run of the
\* expanded DIMM collection has neither a failed call nor malformed data, the
\* finished response carries a fatal error: the object is not passed over in
\* silence.
C17_EmptyIdIsFatal ==
  (/\ req.kind = "Memory"
   /\ phase = "done" /\ faults = 0 /\ world.malformed = {}
   /\ \E o \in ObjsOfKind({"Dimm"}) : filename(o.path) = <<>>) =>
      ResponseLevelError

\* The listing of a single-object request has been answered without error
\* and holds no object the request matches.
ZeroMatches(c) ==
  /\ <<c, "ok">> \in answered
  /\ \/ /\ c.kind = "ProcessorSubTree"
        /\ \A o \in ObjsOfKind({"Cpu", "Other", "UniqueId"}) :
              ~IsProcessorObject(o, c.pid)
     \/ /\ c.kind = "DimmSubTree" /\ req.kind = "Dimm"
        /\ \A o \in ObjsOfKind({"Dimm"}) : filename(o.path) # req.dimmId

ReplyCodes == {"ok", "io_error", "other", "host_unreachable"}

\* The step of any continuation: it is handed the reply of a call in flight.
Deliver ==
  /\ phase = "running"
  /\ \E c \in inflight : \E ec \in ReplyCodes :
       answered' = answered \cup {<<c, ec>>}

FairSpec == Init /\ [][Next]_vars /\ WF_answered(Deliver)

\* The continuation of call c has been run.
Delivered(c) == \E a \in answered : a[1] = c

\* A call in flight has not been answered before: its delivery is a step
\* that extends answered.
InFlightUnanswered ==
  phase = "running" => (inflight # {} /\ \A c \in inflight : ~Delivered(c))

\* C20: if every issued backend call delivers its continuation, a request
\* that has started eventually reaches Done (nothing pending, the response
\* released and sent).  A run in which some issued call never delivers is
\* outside the claim: it may stay short of Done.
C20_EventuallyDone ==
  (phase = "running") ~>
     \/ phase = "done"
     \/ phase = "crashed" /\ \E c \in issued : ~Delivered(c)

\* Without the invalid dereference every request ends: the only runs that
\* stay short of Done are the ones that died.
DoneOrDied == (phase = "running") ~> (phase \in {"done", "crashed"})


\* The endpoints of the association of the object a nested collection was
\* expanded for that implement the interface the collection lists.
FilteredEndpoints(c) ==
  {o.path : o \in {q \in ObjsOfKind({IF c.kind = "CoreManagedObjects"
                                     THEN "CpuCore" ELSE "CpuThread"}) :
                     q.path \in Endpoints(c.path)}}

\* The endpoints of the processor a single-core request resolved that
\* implement the core interface and carry the requested core id.
RequestedEndpoints(c) ==
  {o.path : o \in {q \in ObjsOfKind({"CpuCore"}) :
                     q.path \in Endpoints(c.path) /\ filename(q.path) = c.cid}}

\* C21: where an association and an interface filter both apply, the result
\* is exactly the association endpoints that implement the interface.  Once
\* the bulk retrieval of a nested collection has been answered, the ids of
\* its members are the ids of those endpoints and of no endpoint of another
\* type; and once the two listings of a single-core request have been
\* answered, a requested core that is such an endpoint has been resolved.
C21_MembersAreFilteredEndpoints ==
  /\ \A c \in issued :
       (c.kind \in NestedBulkKinds /\ <<c, "ok">> \in answered) =>
          /\ Range(MemberIds(doc, c.ptr))
               = {filename(p) : p \in FilteredEndpoints(c)}
          /\ \A p \in Endpoints(c.path) \ FilteredEndpoints(c) :
               filename(p) \notin Range(MemberIds(doc, c.ptr))
  /\ \A c \in issued :
       (c.kind = "CoreDataSubTreePaths" /\ <<c, "ok">> \in answered) =>
          \A p \in RequestedEndpoints(c) :
             \E x \in issued : x.kind = "CoreDataGetObject" /\ x.path = p


\* The paths a bulk retrieval was requested for: the processor, core or
\* thread paths resolved before it, or the DIMMs the request is about.
RequestedPaths(c) ==
  IF c.kind \in {"CpuManagedObjects", "CoreDataManagedObjects"} THEN {c.path}
  ELSE IF c.kind \in NestedBulkKinds
  THEN {c.map[id].path : id \in Range(c.ids)}
  ELSE {o.path : o \in {q \in ObjsOfKind({"Dimm"}) :
                          /\ filename(q.path) # <<>>
                          /\ givenDimmId \in {<<>>, <<filename(q.path)>>}}}

\* The entries of the reply of a bulk retrieval that were not asked for.
DiscardedEntries(c) ==
  {o \in world.objs : c.svc \in Range(o.svcs) /\ o.path \notin RequestedPaths(c)}

\* The member slots a step adds.
NewSlots ==
  UNION {{MembersOf(coll) \o <<Tok(i)>> :
            i \in ArrLen(doc, MembersOf(coll))
                    ..(ArrLen(doc', MembersOf(coll)) - 1)} :
           coll \in CollectionsOf(doc')}

MembersKeepPlace(coll) ==
  \A i \in 0..(ArrLen(doc, MembersOf(coll)) - 1) :
     LET slot == MembersOf(coll) \o <<Tok(i)>>
     IN  IdOfSlot(doc, slot) # <<>> => IdOfSlot(doc', slot) = IdOfSlot(doc, slot)

\* The step in which the memory response is finalized.
FinalizesMemory == hap.alive /\ ~hap'.alive

MaxIds == 3

\* The ids a vector is made of.
IdPool == {<<"1">>, <<"2">>, <<"1", "0">>, C2, C10}

IdVectors == UNION {[1..n -> IdPool] : n \in 0..MaxIds}

SortInit ==
  /\ req \in [kind : {"Sort"}, expandLevel : {0}, ids : IdVectors]
  /\ world = [objs |-> {}, malformed |-> {}]
  /\ doc = <<>>
  /\ resStatus = "200"
  /\ inflight = {}
  /\ issued = {}
  /\ faults = 0
  /\ answered = {}
  /\ phase = "idle"
  /\ hap = NoHap
  /\ task = NoTask

\* std::sort of the ids, then one member per sorted id.
sortIds ==
  /\ phase = "idle"
  /\ req.kind = "Sort"
  /\ LET sorted == SortIds(req.ids)
     IN  doc' = [p \in {<<"Members", Tok(i - 1), "Id">> : i \in DOMAIN sorted}
                   |-> sorted[TokIdx(p[2]) + 1]]
  /\ phase' = "done"
  /\ UNCHANGED <<task, req, world, resStatus, inflight, issued, faults, answered, hap>>

SortNext == sortIds

SortSpec == SortInit /\ [][SortNext]_vars

\* C24: the sorted ids are in the comparator's order, hold every given id as
\* often as it was given, and no other arrangement of the given ids is in
\* that order, so the result does not depend on the order they were given
\* in; the ids 10, 2, 1, in any order, come out as 1, 2, 10.
C24_NaturalSort ==
  (phase = "done" /\ req.kind = "Sort") =>
     LET out == MemberIds(doc, <<>>)
     IN  /\ IsSortedIds(out)
         /\ Len(out) = Len(req.ids)
         /\ \A id \in IdPool : Occurrences(out, id) = Occurrences(req.ids, id)
         /\ \A s \in [1..Len(out) -> Range(req.ids)] :
              (/\ IsSortedIds(s)
               /\ \A id \in IdPool :
                    Occurrences(s, id) = Occurrences(req.ids, id)) => s = out
         /\ (Len(req.ids) = 3
               /\ Range(req.ids) = {<<"1", "0">>, <<"2">>, <<"1">>}) =>
              out = <<<<"1">>, <<"2">>, <<"1", "0">>>>

\* C24 witness: the ids given as 10, 2, 1 have been sorted.
C24_Witness ==
  /\ phase = "done" /\ req.kind = "Sort"
  /\ req.ids = <<<<"1", "0">>, <<"2">>, <<"1">>>>
  /\ MemberIds(doc, <<>>) = <<<<"1">>, <<"2">>, <<"1", "0">>>>


\* The collections of a document that report a count.
CountedCollections(d) ==
  {SubSeq(p, 1, Len(p) - 1) :
     p \in {q \in DOMAIN d : q # <<>> /\ q[Len(q)] = "Members@odata.count"}}

\* C25: in the finished response the count every collection reports is the
\* length of its member array, whatever failed on the way.
C25_CountEqualsLength ==
  phase = "done" =>
     \A coll \in CountedCollections(doc) \cup CollectionsOf(doc) :
        /\ HasCount(doc, coll)
        /\ CountOf(doc, coll) = ArrLen(doc, MembersOf(coll))


\* The listing of a nested collection has been answered without error, and
\* no endpoint of the association implements the listed interface.
NoFilteredEndpoint(c) ==
  /\ c.kind \in {"CoreSubTree", "ThreadSubTree"}
  /\ <<c, "ok">> \in answered
  /\ \A o \in ObjsOfKind({IF c.kind = "CoreSubTree" THEN "CpuCore"
                          ELSE "CpuThread"}) : o.path \notin c.eps

\* C26: when the association look-up succeeded and no endpoint passes the
\* interface filter, the expanded sub-collection is an empty collection: an
\* empty member array, count 0, no error, and the request goes on.
C26_NoEndpointIsEmptyCollection ==
  \A c \in issued :
     (NoFilteredEndpoint(c) /\ faults = 0 /\ world.malformed = {}) =>
        /\ phase # "crashed"
        /\ ~ResponseLevelError
        /\ HasCount(doc, c.ptr) /\ CountOf(doc, c.ptr) = 0
        /\ MembersOf(c.ptr) \in DOMAIN doc
        /\ ArrLen(doc, MembersOf(c.ptr)) = 0


\* A single-core request names a processor id no processor has, or a core
\* id no core contained in a processor of that id has.
NamesNoObject(c) ==
  /\ c.kind = "CpuPaths"
  /\ \/ \A o \in ObjsOfKind({"Cpu"}) : filename(o.path) # c.pid
     \/ \A o \in ObjsOfKind({"CpuCore"}) :
          \/ filename(o.path) # c.cid
          \/ filename(parent_path(o.path)) # c.pid

\* C27: a finished single-core request that names a processor or core that
\* does not exist, none of whose calls failed, is answered with
\* ResourceNotFound.
C27_NoMatchIsNotFound ==
  \A c \in issued :
     (NamesNoObject(c) /\ phase = "done" /\ faults = 0) =>
        /\ resStatus = "404"
        /\ <<"error">> \in DOMAIN doc
        /\ doc[<<"error">>] = <<"ResourceNotFound">>


(***************************************************************************)
(* C28: the object a single-processor lookup answers from.                 *)
(***************************************************************************)
\* The backend objects getProcessorObject has handed to its handler: the
\* handler asks each service of the object for that object's data.
LookedUpPaths ==
  {c.path : c \in {x \in issued : x.kind = "CpuManagedObjects"}}

\* C28: a single-processor lookup succeeds only for a backend object whose
\* final path segment equals the requested processor id, and a processor the
\* collection lists under that id is the object the lookup answers from.
C28_LookupByStableId ==
  req.kind = "Processor" =>
     /\ \A p \in LookedUpPaths : filename(p) = req.processorId
     /\ (phase = "done" /\ faults = 0) =>
           \A o \in ObjsOfKind({"Cpu"}) :
              filename(o.path) = req.processorId => LookedUpPaths = {o.path}


(***************************************************************************)
(* C29: the object behind each slot of the expanded processor collection.  *)
(***************************************************************************)
\* The listing of processors has been answered without error.
ProcessorsListed ==
  /\ req.kind = "Processors"
  /\ faults = 0
  /\ \E c \in issued : c.kind = "CpuSubTree" /\ <<c, "ok">> \in answered

\* The backend paths whose data is asked for to fill a slot of Members.
SlotPaths ==
  {c.path : c \in {x \in issued : /\ x.kind = "CpuManagedObjects"
                                  /\ Len(x.ptr) = 2
                                  /\ x.ptr[1] = "Members"}}

\* C29: every slot of the expanded collection is populated from the backend
\* object whose path resolved to it, even when two paths share the final
\* segment: each listed processor is the source of a slot.
C29_SlotFromItsOwnObject ==
  ProcessorsListed =>
     \A o \in ObjsOfKind({"Cpu"}) : o.svcs # <<>> => o.path \in SlotPaths


(***************************************************************************)
(* C30: the efficient handler against the default handler.                 *)
(***************************************************************************)
\* The member ids the default handler lists for the backend state: the ids
\* of the objects with a processor interface, naturally sorted.
DefaultMemberIds ==
  SortIds(IdsOf(CHOOSE s \in Perms(ObjsOfKind(processorInterfaces)) : TRUE))

\* The collection of the response has the member ids, order and count the
\* default handler yields.
AsDefaultCollection ==
  /\ MemberIds(doc, <<>>) = DefaultMemberIds
  /\ <<"Members@odata.count">> \in DOMAIN doc
  /\ doc[<<"Members@odata.count">>] = <<Tok(Len(DefaultMemberIds))>>

\* The default handler itself answers with that collection.
DefaultHandlerListsDefault ==
  (req.kind = "Processors" /\ req.expandLevel = 0
     /\ phase = "done" /\ faults = 0) => AsDefaultCollection

\* C30: for the same backend state the efficient expand handler yields a
\* collection whose member ids, order and count equal those of the default
\* handler of the endpoint.
C30_ExpandListsAsDefault ==
  (req.kind = "Processors" /\ req.expandLevel > 0
     /\ phase = "done" /\ faults = 0) => AsDefaultCollection


(***************************************************************************)
(* C31: when the partitions are assembled into the DIMM slots.             *)
(***************************************************************************)
\* The addresses of a document that hold the data of a partition.
RegionsOf(d) == {p \in DOMAIN d : p[Len(p)] = "RegionId"}

\* The bulk retrievals of DIMMs and of partitions issued so far.
MemoryFetches ==
  {c \in issued : c.kind \in {"DimmManagedObjects", "PartitionManagedObjects"}}

\* C31: for an expanded memory request partition data is written into the
\* DIMM slots in one step only: the continuation of every DIMM retrieval and
\* of every partition retrieval has run by then, the response is finalized
\* by that very step and not before, and in the finished response the data
\* of a partition is in the document at most once.
C31_PartitionsAssembledOnceAtEnd ==
  /\ [][(req.kind = "Memory" /\ RegionsOf(doc') # RegionsOf(doc)) =>
          /\ RegionsOf(doc) = {}
          /\ phase = "running" /\ phase' = "done"
          /\ hap.alive /\ ~hap'.alive
          /\ \A c \in MemoryFetches : \E a \in answered' : a[1] = c]_vars
  /\ [](req.kind = "Memory" =>
          \A o \in ObjsOfKind({"Partition"}) :
             Cardinality({p \in RegionsOf(doc) : doc[p] = Join(o.path)}) <= 1)

\* C31 witness: a finished DIMM collection with the data of a partition in
\* a slot, after two DIMM retrievals and a partition retrieval.
C31_Witness ==
  /\ req.kind = "Memory" /\ phase = "done" /\ ~hap.alive
  /\ RegionsOf(doc) # {}
  /\ Cardinality({c \in MemoryFetches : c.kind = "DimmManagedObjects"}) = 2
  /\ \E c \in MemoryFetches : c.kind = "PartitionManagedObjects"
  /\ \A c \in MemoryFetches : \E a \in answered : a[1] = c


(***************************************************************************)
(* C32: the drive collection of a chassis that does not exist.             *)
(***************************************************************************)
\* C32: a finished drive-collection request, none of whose calls failed,
\* for a chassis id no chassis object of the backend has, is answered with
\* ResourceNotFound.
C32_UnknownChassisIsNotFound ==
  (/\ req.kind = "ChassisDrives" /\ phase = "done" /\ faults = 0
   /\ \A o \in ObjsOfKind({"Chassis"}) : filename(o.path) # req.chassisId) =>
      /\ resStatus = "404"
      /\ <<"error">> \in DOMAIN doc
      /\ doc[<<"error">>] = <<"ResourceNotFound">>


(***************************************************************************)
(* The storage family: storage objects with their controllers, volumes and *)
(* drives.  A controller is at <storage>/c/<id>, a volume at               *)
(* <storage>/v/<id> (the segments "controllers" and "volumes" are written  *)
(* c and v).  The backend also holds the volumes attached to the           *)
(* controller, the block size of the volumes and the state of an erase.    *)
(***************************************************************************)
S1 == <<"s", "1">>
S2 == <<"s", "2">>
N1 == <<"n", "1">>
V1 == <<"v", "1">>
V2 == <<"v", "2">>
V3 == <<"v", "3">>
CONTROLLERS == <<"c">>
VOLUMES == <<"v">>

\* A storage can be served by one service, by two, or be listed with an
\* empty service map.
StorageUniverse ==
  { Obj(<<INV, S1>>, "Storage", <<"svcA">>),
    Obj(<<INV, S1>>, "Storage", <<"svcA", "svcB">>),
    Obj(<<INV, S1>>, "Storage", <<>>),
    Obj(<<INV, S2>>, "Storage", <<"svcB">>),
    Obj(<<INV, S1, CONTROLLERS, N1>>, "StorageController", <<"svcA">>),
    Obj(<<INV, S1, VOLUMES, V1>>, "Volume", <<"svcA">>),
    Obj(<<INV, S1, VOLUMES, V2>>, "Volume", <<"svcA">>) }

\* The storage an object of the storage family is part of.
StorageOf(path) == SubSeq(path, 1, 2)

StorageInventories ==
  {S \in SUBSET StorageUniverse :
     /\ Cardinality(S) <= MaxScenario
     /\ UniquePaths(S)
     /\ \A o \in S : \E q \in S : q.kind = "Storage" /\ q.path = StorageOf(o.path)}

\* getAssociatedSubTreePaths: the endpoints of an association that have the
\* interface, in an order the mapper chooses; an error when there is none.
AssociatedNatural(paths) ==
  IF paths = {}
  THEN {[ec |-> "io_error", paths |-> <<>>]}
  ELSE {[ec |-> "ok", paths |-> s] : s \in Perms(paths)}

AssociatedFaulty(paths) ==
  {[ec |-> "other", paths |-> <<>>]}
    \cup (IF paths # {} THEN {[ec |-> "io_error", paths |-> <<>>]} ELSE {})

\* The controllers of a storage.
ControllersOf(storagePath) ==
  {o.path : o \in {q \in ObjsOfKind({"StorageController"}) :
                     StorageOf(q.path) = storagePath}}

\* GET /redfish/v1/Systems/system/Storage/<storageId>/Controllers:
\* storageControllerCollectionHandler up to the D-Bus call of findStorage.
storageControllerCollectionHandler ==
  /\ phase = "idle"
  /\ req.kind = "Controllers"
  /\ LET e1 == Issue(E0, Call("StorageSubTree", <<>>, <<>>, 0, "mapper",
                              req.storageId, <<>>, <<>>, <<>>, NoMap, {}))
     IN  /\ inflight' = e1.calls
         /\ issued' = e1.calls
         /\ phase' = "running"
  /\ UNCHANGED <<task, req, world, doc, resStatus, faults, answered, hap>>

\* The callback storageControllerCollectionHandler hands to findStorage.
storageControllerCollectionCb(e, storageId, storagePath) ==
  LET e1 == Put(e, <<"@odata.id">>, Join(<<storageId, <<"Controllers">>>>))
  IN  Issue(e1, Call("ControllerPaths", <<>>, <<>>, 0, "mapper", storageId,
                     <<>>, storagePath, <<>>, NoMap, {}))

\* The volumes of a storage.
VolumesOf(storagePath) ==
  {o.path : o \in {q \in ObjsOfKind({"Volume"}) :
                     StorageOf(q.path) = storagePath}}

\* The callback findStorageVolume hands to findStorage: the volumes the
\* storage contains are listed.
findStorageVolumeCb(e, storageId, storagePath) ==
  Issue(e, Call("VolumeSubTree", <<>>, <<>>, 0, "mapper", storageId,
                req.volumeId, storagePath, <<>>, NoMap, {}))

\* The callback the request has handed to findStorage.
findStorageCb(e, storageId, storagePath) ==
  IF req.kind = "Controllers"
  THEN storageControllerCollectionCb(e, storageId, storagePath)
  ELSE findStorageVolumeCb(e, storageId, storagePath)

\* The continuation of findStorage.  A storage that is not served by exactly
\* one service is reported, and the function goes on: serviceMap.front() of
\* an empty map is undefined (the process dies, or goes on with whatever it
\* reads), and the callback is called.
findStorage(c) ==
  /\ Deliverable(c, "StorageSubTree")
  /\ \E r \in Replies(SubTreeNatural({"Storage"}), SubTreeFaulty({"Storage"})) :
       /\ CountFault(c, r, SubTreeFaulty({"Storage"}))
       /\ LET found == {i \in DOMAIN r.subtree :
                          filename(r.subtree[i].path) = c.pid}
          IN  IF r.ec # "ok" \/ found = {}
              THEN Commit(c, resourceNotFound(E0))
              ELSE LET storage == r.subtree[CHOOSE i \in found :
                                              \A j \in found : i <= j]
                       e1 == IF Len(storage.svcs) # 1
                             THEN resourceNotFound(E0) ELSE E0
                   IN  \/ Commit(c, findStorageCb(e1, c.pid, storage.path))
                       \/ storage.svcs = <<>> /\ Crash(c)

\* The members populateStorageControllerCollection makes of the listed
\* controllers; a controller without a name ends the function.
RECURSIVE ControllerLoop(_, _, _, _)
ControllerLoop(e, controllerList, storageId, i) ==
  IF i > Len(controllerList) THEN e
  ELSE ControllerLoop(
         Put(e, <<"Members", Tok(i - 1), "@odata.id">>,
             Join(<<storageId, <<"Controllers">>,
                    filename(controllerList[i])>>)),
         controllerList, storageId, i + 1)

\* populateStorageControllerCollection
populateStorageControllerCollection(c) ==
  /\ Deliverable(c, "ControllerPaths")
  /\ \E r \in Replies(AssociatedNatural(ControllersOf(c.path)),
                      AssociatedFaulty(ControllersOf(c.path))) :
       /\ CountFault(c, r, AssociatedFaulty(ControllersOf(c.path)))
       /\ IF r.ec # "ok" \/ r.paths = <<>>
          THEN Commit(c, Put(PutArray(E0, <<"Members">>),
                             <<"Members@odata.count">>, <<Tok(0)>>))
          ELSE IF \E i \in DOMAIN r.paths : filename(r.paths[i]) = <<>>
          THEN Commit(c, E0)
          ELSE LET e1 == ControllerLoop(PutArray(E0, <<"Members">>), r.paths,
                                        c.pid, 1)
               IN  Commit(c, Put(e1, <<"Members@odata.count">>,
                                 <<Tok(Len(r.paths))>>))


(***************************************************************************)
(* One volume.                                                             *)
(***************************************************************************)
\* The block sizes a volume can have.
BlockSizes == {<<"5", "1", "2">>, <<"4", "0", "9", "6">>}

\* GET /redfish/v1/Systems/system/Storage/<storageId>/Volumes/<volumeId>:
\* storageVolumeHandler up to the D-Bus call of findStorage.
storageVolumeHandler ==
  /\ phase = "idle"
  /\ req.kind = "Volume"
  /\ LET e1 == Issue(E0, Call("StorageSubTree", <<>>, <<>>, 0, "mapper",
                              req.storageId, <<>>, <<>>, <<>>, NoMap, {}))
     IN  /\ inflight' = e1.calls
         /\ issued' = e1.calls
         /\ phase' = "running"
  /\ UNCHANGED <<task, req, world, doc, resStatus, faults, answered, hap>>

\* tryPopulateVolumeNvme up to its D-Bus call: the block size it is given is
\* captured by the continuation.
tryPopulateVolumeNvme(e, connectionName, path, volumeId, blockSize) ==
  Issue(Put(e, <<"Name">>, <<"Namespace">> \o volumeId),
        Call("NvmeVolumeProperties", <<>>, <<>>, 0, connectionName, <<>>,
             volumeId, path, <<>>, [blockSize |-> blockSize], {}))

\* populateStorageVolume: the local volBlockSize is 0 when it is passed, by
\* value, to tryPopulateVolumeNvme; the continuation of the first call only
\* holds a reference to it.
populateStorageVolume(e, storageId, volumeId, connectionName, path) ==
  LET e1 == Put(e, <<"@odata.id">>,
                Join(<<storageId, <<"Volumes">>, volumeId>>))
      e2 == Put(Put(e1, <<"Name">>, <<"Volume">> \o volumeId),
                <<"Id">>, volumeId)
      e3 == Issue(e2, Call("VolumeProperties", <<>>, <<>>, 0, connectionName,
                           <<>>, volumeId, path, <<>>, NoMap, {}))
  IN  tryPopulateVolumeNvme(e3, connectionName, path, volumeId, <<"0">>)

\* The continuation of findStorageVolume.
findStorageVolume(c) ==
  /\ Deliverable(c, "VolumeSubTree")
  /\ \E r \in Replies(AssociatedNatural(VolumesOf(c.path)),
                      AssociatedFaulty(VolumesOf(c.path))) :
       /\ CountFault(c, r, AssociatedFaulty(VolumesOf(c.path)))
       /\ LET found == {i \in DOMAIN r.paths : filename(r.paths[i]) = c.cid}
          IN  IF r.ec # "ok" \/ r.paths = <<>> \/ found = {}
              THEN Commit(c, resourceNotFound(E0))
              ELSE LET path == r.paths[CHOOSE i \in found :
                                         \A j \in found : i <= j]
                       vol == CHOOSE o \in world.objs : o.path = path
                   IN  IF Len(vol.svcs) # 1
                       THEN Commit(c, internalError(E0))
                       ELSE Commit(c, populateStorageVolume(
                                        E0, c.pid, c.cid, vol.svcs[1], path))

\* The continuation of the getAllProperties call of populateStorageVolume.
\* It writes the block size through its reference to volBlockSize, whose
\* frame is gone: the write lands somewhere, or the process dies.
populateStorageVolumeProperties(c) ==
  /\ Deliverable(c, "VolumeProperties")
  /\ \E r \in Replies({[ec |-> "ok"]}, {[ec |-> "other"]}) :
       /\ CountFault(c, r, {[ec |-> "other"]})
       /\ IF r.ec # "ok"
          THEN Commit(c, E0)
          ELSE LET e1 == Put(E0, <<"BlockSizeBytes">>, world.blockSize)
               IN  Commit(c, e1) \/ Crash(c)

\* The continuation of the getAllProperties call of tryPopulateVolumeNvme.
tryPopulateVolumeNvmeProperties(c) ==
  /\ Deliverable(c, "NvmeVolumeProperties")
  /\ \E r \in Replies({[ec |-> "ok"]}, {[ec |-> "other"]}) :
       /\ CountFault(c, r, {[ec |-> "other"]})
       /\ IF r.ec # "ok"
          THEN Commit(c, E0)
          ELSE Commit(c, Put(E0, <<"NVMeNamespaceProperties", "LBAFormat",
                                   "LBADataSizeBytes">>, c.map.blockSize))


(***************************************************************************)
(* PATCH of Links/AttachedVolumes of a storage controller.                 *)
(***************************************************************************)
\* The longest AttachedVolumes list of a request.
MaxUris == 2

\* A URI that does not parse, or is not
\* /redfish/v1/Systems/system/Storage/<storage>/Volumes/<volume>.
MalformedUri == [parsed |-> FALSE, storage |-> <<>>, volume |-> <<>>]

VolumeUri(storage, volume) ==
  [parsed |-> TRUE, storage |-> storage, volume |-> volume]

PatchUris ==
  {MalformedUri, VolumeUri(S1, V1), VolumeUri(S1, V2), VolumeUri(S1, V3),
   VolumeUri(S2, V1)}

\* std::less<std::string> on object paths.
PathLess(p, q) == LexCmp(Join(p), Join(q)) < 0

\* std::sort(updateVolumes.begin(), updateVolumes.end())
RECURSIVE InsertPath(_, _)
InsertPath(x, s) ==
  IF s = <<>> THEN <<x>>
  ELSE IF PathLess(x, Head(s)) THEN <<x>> \o s
  ELSE <<Head(s)>> \o InsertPath(x, Tail(s))

RECURSIVE SortPaths(_)
SortPaths(s) ==
  IF s = <<>> THEN <<>> ELSE InsertPath(Head(s), SortPaths(Tail(s)))

\* std::set_difference of two sorted ranges: an element that is m times in
\* the first and n times in the second is max(m - n, 0) times in the result.
RECURSIVE set_difference(_, _)
set_difference(a, b) ==
  IF a = <<>> THEN <<>>
  ELSE IF b = <<>> THEN a
  ELSE IF PathLess(Head(a), Head(b))
  THEN <<Head(a)>> \o set_difference(Tail(a), b)
  ELSE IF PathLess(Head(b), Head(a)) THEN set_difference(a, Tail(b))
  ELSE set_difference(Tail(a), Tail(b))

\* messages::invalidURI(res, uri)
invalidURI(e) ==
  [e EXCEPT !.doc = Write(@, <<"error">>, <<"InvalidURI">>),
            !.status = "400"]

\* storageAddDbusError: the error of the NVMe daemon is reported.
storageAddDbusError(e) ==
  [e EXCEPT !.doc = Write(@, <<"error">>, <<"GeneralError">>),
            !.status = "500"]

\* The URIs the loop of storagePatchAttachedVolumes rejects: those that do
\* not parse and those of another storage.
BadUris(uris, storageId) ==
  {i \in DOMAIN uris : ~uris[i].parsed \/ uris[i].storage # storageId}

\* PATCH /redfish/v1/Systems/system/Storage/<storageId>/Controllers/<id>
\* with Links/AttachedVolumes: storagePatchController and
\* storagePatchAttachedVolumes up to the first D-Bus call of
\* findStorageController.
storagePatchController ==
  /\ phase = "idle"
  /\ req.kind = "PatchAttached"
  /\ IF BadUris(req.uris, req.storageId) # {}
     THEN LET e1 == invalidURI(E0)
          IN  /\ doc' = e1.doc
              /\ resStatus' = e1.status
              /\ phase' = "done"
              /\ UNCHANGED <<inflight, issued>>
     ELSE LET e1 == Issue(E0, Call("ControllerStorageSubTree", <<>>, <<>>, 0,
                                   "mapper", req.storageId, req.controllerId,
                                   <<>>,
                                   [i \in DOMAIN req.uris |->
                                      req.uris[i].volume],
                                   NoMap, {}))
          IN  /\ inflight' = e1.calls
              /\ issued' = e1.calls
              /\ phase' = "running"
              /\ UNCHANGED <<doc, resStatus>>
  /\ UNCHANGED <<task, req, world, faults, answered, hap>>

\* GetSubTree below a storage: its controllers.
ControllerSubTreeNatural(storagePath) ==
  LET objs == {o \in ObjsOfKind({"StorageController"}) :
                 StorageOf(o.path) = storagePath}
  IN  IF objs = {} THEN {[ec |-> "io_error", subtree |-> <<>>]}
      ELSE {[ec |-> "ok", subtree |-> s] : s \in Perms(objs)}

ControllerSubTreeFaulty(storagePath) ==
  {[ec |-> "other", subtree |-> <<>>]}

\* findStorageController: the continuation of the listing of the storages.
findStorageController(c) ==
  /\ Deliverable(c, "ControllerStorageSubTree")
  /\ \E r \in Replies(SubTreeNatural({"Storage"}), SubTreeFaulty({"Storage"})) :
       /\ CountFault(c, r, SubTreeFaulty({"Storage"}))
       /\ LET found == {i \in DOMAIN r.subtree :
                          filename(r.subtree[i].path) = c.pid}
          IN  IF r.ec # "ok" \/ found = {}
              THEN Commit(c, resourceNotFound(E0))
              ELSE LET storage == r.subtree[CHOOSE i \in found :
                                              \A j \in found : i <= j]
                   IN  Commit(c, Issue(E0, Call("ControllerSubTree", <<>>,
                                                 <<>>, 0, "mapper", c.pid,
                                                 c.cid, storage.path, c.ids,
                                                 NoMap, {})))

\* The callback storagePatchAttachedVolumes hands to findStorageController:
\* the paths of the requested volumes, sorted, and the listing of the
\* volumes of the storage.
storagePatchAttachedVolumesCb(e, controllerPath, ifaces, updateVolIDs) ==
  LET storagePath == parent_path(parent_path(controllerPath))
      updateVolumes ==
        SortPaths([i \in DOMAIN updateVolIDs |->
                     storagePath \o <<VOLUMES, updateVolIDs[i]>>])
  IN  Issue(e, Call("VolumePaths", <<>>, <<>>, 0, ifaces[1], <<>>, <<>>,
                    controllerPath, updateVolumes, NoMap, {}))

\* findStorageController: the continuation of the listing of the
\* controllers of the storage.
findStorageControllerSubTree(c) ==
  /\ Deliverable(c, "ControllerSubTree")
  /\ \E r \in Replies(ControllerSubTreeNatural(c.path),
                      ControllerSubTreeFaulty(c.path)) :
       /\ CountFault(c, r, ControllerSubTreeFaulty(c.path))
       /\ LET found == {i \in DOMAIN r.subtree :
                          filename(r.subtree[i].path) = c.cid}
          IN  IF r.ec # "ok" \/ found = {}
              THEN Commit(c, resourceNotFound(E0))
              ELSE LET ctrl == r.subtree[CHOOSE i \in found :
                                           \A j \in found : i <= j]
                   IN  Commit(c, storagePatchAttachedVolumesCb(
                                    E0, ctrl.path, ctrl.svcs, c.ids))

\* Variant: the requested paths are not checked against the volumes of the
\* storage.
NotVolumesUnchecked(updateVolumes, volPaths) == {}

\* The requested paths that are no volume of the storage.
NotVolumes(updateVolumes, volPaths) ==
  {i \in DOMAIN updateVolumes :
     \A j \in DOMAIN volPaths : volPaths[j] # updateVolumes[i]}

\* storagePatchAttachedVolumes: the continuation of storageVolumes.
storagePatchAttachedVolumesVolumes(c) ==
  /\ Deliverable(c, "VolumePaths")
  /\ LET storagePath == parent_path(parent_path(c.path))
     IN  \E r \in Replies(AssociatedNatural(VolumesOf(storagePath)),
                          AssociatedFaulty(VolumesOf(storagePath))) :
           /\ CountFault(c, r, AssociatedFaulty(VolumesOf(storagePath)))
           /\ IF r.ec # "ok"
              THEN Commit(c, internalError(E0))
              ELSE IF NotVolumes(c.ids, r.paths) # {}
              THEN Commit(c, invalidURI(E0))
              ELSE Commit(c, Issue(E0, Call("AttachedPaths", <<>>, <<>>, 0,
                                            c.svc, <<>>, <<>>, c.path, c.ids,
                                            NoMap, {})))

\* Variant: the attaches are made before the detaches.
storageApplyAttachFirst(e, connectionName, controllerPath, attaches, detaches) ==
  IF attaches # <<>>
  THEN Issue(e, Call("AttachVolume", <<>>, <<>>, 0, connectionName, <<>>,
                     <<>>, controllerPath, <<attaches[Len(attaches)]>>,
                     [attaches |-> SubSeq(attaches, 1, Len(attaches) - 1),
                      detaches |-> detaches],
                     {}))
  ELSE IF detaches # <<>>
  THEN Issue(e, Call("DetachVolume", <<>>, <<>>, 0, connectionName, <<>>,
                     <<>>, controllerPath, <<detaches[Len(detaches)]>>,
                     [attaches |-> attaches,
                      detaches |-> SubSeq(detaches, 1, Len(detaches) - 1)],
                     {}))
  ELSE Issue(e, Call("ControllerObject", <<>>, <<>>, 0, connectionName,
                     <<>>, <<>>, controllerPath, <<>>, NoMap, {}))

\* The next call of storageApplyAttachDetach: the last detach that is left,
\* else the last attach that is left, else the look-up of the controller.
\* The call carries the two lists as they are once its element is taken.
storageApplyAttachDetach(e, connectionName, controllerPath, attaches, detaches) ==
  IF detaches # <<>>
  THEN Issue(e, Call("DetachVolume", <<>>, <<>>, 0, connectionName, <<>>,
                     <<>>, controllerPath, <<detaches[Len(detaches)]>>,
                     [attaches |-> attaches,
                      detaches |-> SubSeq(detaches, 1, Len(detaches) - 1)],
                     {}))
  ELSE IF attaches # <<>>
  THEN Issue(e, Call("AttachVolume", <<>>, <<>>, 0, connectionName, <<>>,
                     <<>>, controllerPath, <<attaches[Len(attaches)]>>,
                     [attaches |-> SubSeq(attaches, 1, Len(attaches) - 1),
                      detaches |-> detaches],
                     {}))
  ELSE Issue(e, Call("ControllerObject", <<>>, <<>>, 0, connectionName,
                     <<>>, <<>>, controllerPath, <<>>, NoMap, {}))

\* storagePatchAttachedVolumes: the continuation of
\* storageCtrlAttachedVolumes.
storagePatchAttachedVolumesAttached(c) ==
  /\ Deliverable(c, "AttachedPaths")
  /\ \E r \in Replies(AssociatedNatural(world.attached),
                      AssociatedFaulty(world.attached)) :
       /\ CountFault(c, r, AssociatedFaulty(world.attached))
       /\ IF r.ec # "ok"
          THEN Commit(c, internalError(E0))
          ELSE LET existing == SortPaths(r.paths)
                   attaches == set_difference(c.ids, existing)
                   detaches == set_difference(existing, c.ids)
               IN  Commit(c, storageApplyAttachDetach(
                                E0, c.svc, c.path, attaches, detaches))

\* The replies of the NVMe daemon to AttachVolume and DetachVolume.
VolumeCallNatural == {[ec |-> "ok"]}

VolumeCallFaulty == {[ec |-> "sd_err"], [ec |-> "other"]}

\* The continuation of call c has run with effect e, and the backend is w.
CommitWorld(c, e, w) ==
  LET rest == (inflight \ {c}) \cup e.calls
  IN  /\ inflight' = rest
      /\ issued' = issued \cup e.calls
      /\ doc' = e.doc
      /\ resStatus' = e.status
      /\ phase' = IF rest = {} THEN "done" ELSE "running"
      /\ world' = w
      /\ UNCHANGED <<task, req, hap>>

\* The controller has detached the volume, and the continuation of
\* DetachVolume in storageApplyAttachDetach has run.
storageApplyDetachVolume(c) ==
  /\ Deliverable(c, "DetachVolume")
  /\ \E r \in Replies(VolumeCallNatural, VolumeCallFaulty) :
       /\ CountFault(c, r, VolumeCallFaulty)
       /\ IF r.ec = "sd_err"
          THEN CommitWorld(c, storageAddDbusError(E0), world)
          ELSE IF r.ec # "ok"
          THEN CommitWorld(c, internalError(E0), world)
          ELSE CommitWorld(c, storageApplyAttachDetach(
                                E0, c.svc, c.path, c.map.attaches,
                                c.map.detaches),
                           [world EXCEPT !.attached = @ \ {c.ids[1]}])

\* The controller has attached the volume, and the continuation of
\* AttachVolume in storageApplyAttachDetach has run.
storageApplyAttachVolume(c) ==
  /\ Deliverable(c, "AttachVolume")
  /\ \E r \in Replies(VolumeCallNatural, VolumeCallFaulty) :
       /\ CountFault(c, r, VolumeCallFaulty)
       /\ IF r.ec = "sd_err"
          THEN CommitWorld(c, storageAddDbusError(E0), world)
          ELSE IF r.ec # "ok"
          THEN CommitWorld(c, internalError(E0), world)
          ELSE CommitWorld(c, storageApplyAttachDetach(
                                E0, c.svc, c.path, c.map.attaches,
                                c.map.detaches),
                           [world EXCEPT !.attached = @ \cup {c.ids[1]}])

\* getDbusObject of the controller.
ControllerObjectNatural(controllerPath) ==
  {[ec |-> "ok", svcs |-> o.svcs] :
     o \in {q \in world.objs : q.path = controllerPath}}

ControllerObjectFaulty == {[ec |-> "other", svcs |-> <<>>]}

\* populateStorageController: the members it writes itself, and the listing
\* of the attached volumes (populateStorageControllerAttached).  Its other
\* property calls write members that do not depend on the volumes.
populateStorageController(e, storageId, controllerId, connectionName, path) ==
  LET e1 == Put(e, <<"@odata.id">>,
                Join(<<storageId, <<"Controllers">>, controllerId>>))
      e2 == Put(Put(e1, <<"Name">>, controllerId), <<"Id">>, controllerId)
  IN  Issue(e2, Call("ControllerAttached", <<>>, <<>>, 0, connectionName,
                     <<>>, <<>>, path, <<>>, NoMap, {}))

\* storageApplyAttachDetach: the continuation of getDbusObject, once both
\* lists are empty.
storageApplyAttachDetachObject(c) ==
  /\ Deliverable(c, "ControllerObject")
  /\ \E r \in Replies(ControllerObjectNatural(c.path), ControllerObjectFaulty) :
       /\ CountFault(c, r, ControllerObjectFaulty)
       /\ IF r.ec # "ok"
          THEN Commit(c, internalError(E0))
          ELSE LET e1 == IF Len(r.svcs) # 1 THEN internalError(E0) ELSE E0
               IN  Commit(c, populateStorageController(
                                e1, filename(parent_path(parent_path(c.path))),
                                filename(c.path), c.svc, c.path))

\* populateStorageControllerAttached
populateStorageControllerAttached(c) ==
  /\ Deliverable(c, "ControllerAttached")
  /\ \E r \in Replies(AssociatedNatural(world.attached),
                      AssociatedFaulty(world.attached)) :
       /\ CountFault(c, r, AssociatedFaulty(world.attached))
       /\ IF r.ec # "ok"
          THEN Commit(c, internalError(E0))
          ELSE Commit(c, Put(E0, <<"Links", "AttachedVolumes">>,
                             [i \in DOMAIN r.paths |-> Join(r.paths[i])]))

(***************************************************************************)
(* Drive erase: the action and the task that follows the erase.  The task  *)
(* outlives the response; phase is "done" once the last continuation that  *)
(* holds the task has run.                                                 *)
(***************************************************************************)
\* The most PropertiesChanged signals that wait to be dispatched.
MaxSignals == 2

\* task::TaskData::createTask and startTimer: the task watches the signals.
createTask(t) ==
  [t EXCEPT !.created = TRUE, !.monitor = TRUE, !.state = <<"Running">>]

\* taskData->stopMonitor(): the task no longer watches the signals.
stopMonitor(t) == [t EXCEPT !.monitor = FALSE]

\* taskData->state = state; taskData->complete(...)
complete(t, state) ==
  [t EXCEPT !.state = state, !.completions = @ + 1]

\* eraseDrive up to its D-Bus call, for a drive matchAndEraseDrive has found.
eraseDrive ==
  /\ phase = "idle"
  /\ req.kind = "Erase"
  /\ LET e1 == Issue(E0, Call("Erase", <<>>, <<>>, 0, "svcA", <<>>, <<>>,
                              <<INV, req.chassisId, req.driveName>>, <<>>,
                              NoMap, {}))
     IN  /\ inflight' = e1.calls
         /\ issued' = e1.calls
         /\ phase' = "running"
  /\ UNCHANGED <<task, req, world, doc, resStatus, faults, answered, hap>>

\* eraseTaskUpdate: nothing while the erase is in progress; else the task
\* stops watching and the outcome of the erase is fetched.  origin names the
\* caller, whose closure the new call is.
eraseTaskUpdate(eraseInProgress, t, connectionName, drivePath, origin) ==
  IF eraseInProgress THEN [task |-> t, calls |-> {}]
  ELSE [task |-> stopMonitor(t),
        calls |-> {Call("EraseProperties", <<>>, <<>>, 0, connectionName,
                        <<>>, origin, drivePath, <<>>, NoMap, {})}]

\* The daemon has started the erase, which may be over already, and the
\* continuation of the Erase call in eraseDrive has run: the task is
\* created and EraseInProgress is polled once.
eraseDriveErase(c) ==
  /\ Deliverable(c, "Erase")
  /\ \E r \in Replies(VolumeCallNatural, VolumeCallFaulty) :
       /\ CountFault(c, r, VolumeCallFaulty)
       /\ IF r.ec = "sd_err"
          THEN CommitWorld(c, storageAddDbusError(E0), world)
          ELSE IF r.ec # "ok"
          THEN CommitWorld(c, internalError(E0), world)
          ELSE \E inProgress \in BOOLEAN, errorName \in {<<>>, <<"err">>} :
                 LET e1 == [Put(E0, <<"TaskState">>, <<"Running">>)
                              EXCEPT !.status = "202"]
                     e2 == Issue(e1, Call("EraseInProgress", <<>>, <<>>, 0,
                                          c.svc, <<>>, <<>>, c.path, <<>>,
                                          [inProgress |-> inProgress], {}))
                     rest == (inflight \ {c}) \cup e2.calls
                 IN  /\ inflight' = rest
                     /\ issued' = issued \cup e2.calls
                     /\ doc' = e2.doc
                     /\ resStatus' = e2.status
                     /\ phase' = "running"
                     /\ task' = createTask(task)
                     /\ world' = [world EXCEPT !.eraseInProgress = inProgress,
                                               !.errorName = errorName]
                     /\ UNCHANGED <<req, hap>>

\* The drive: the erase ends, and PropertiesChanged says so.
driveEraseEnds ==
  /\ phase = "running"
  /\ task.created
  /\ world.eraseInProgress
  /\ world' = [world EXCEPT !.eraseInProgress = FALSE,
                            !.signals = Append(@, [inProgress |-> "false"])]
  /\ UNCHANGED <<task, req, doc, resStatus, inflight, issued, faults,
                 answered, phase, hap>>

\* The drive: the erase goes on, and PropertiesChanged carries the new
\* ErasePercentage only.
driveErasePercentage ==
  /\ phase = "running"
  /\ task.created
  /\ world.eraseInProgress
  /\ Len(world.signals) < MaxSignals
  /\ world' = [world EXCEPT !.signals = Append(@, [inProgress |-> "none"])]
  /\ UNCHANGED <<task, req, doc, resStatus, inflight, issued, faults,
                 answered, phase, hap>>

\* A PropertiesChanged signal is dispatched: eraseTaskHandler runs when the
\* task still watches.  Without EraseInProgress in the signal it only
\* records the percentage.
eraseTaskHandler ==
  /\ phase = "running"
  /\ world.signals # <<>>
  /\ LET msg == Head(world.signals)
         u == IF task.monitor /\ msg.inProgress # "none"
              THEN eraseTaskUpdate(msg.inProgress = "true", task, "svcA",
                                   <<INV, req.chassisId, req.driveName>>,
                                   <<"signal">>)
              ELSE [task |-> task, calls |-> {}]
     IN  /\ task' = u.task
         /\ inflight' = inflight \cup u.calls
         /\ issued' = issued \cup u.calls
         /\ world' = [world EXCEPT !.signals = Tail(@)]
         /\ phase' = IF inflight \cup u.calls = {} /\ Tail(world.signals) = <<>>
                        /\ ~world.eraseInProgress
                     THEN "done" ELSE "running"
  /\ UNCHANGED <<req, doc, resStatus, faults, answered, hap>>

\* The replies to the poll of EraseInProgress: the value when the drive
\* answers, which is the value now or, for an erase that was in progress
\* when the poll was issued, "in progress".  The drive sends a reply after the
\* signals it has emitted before: "not in progress" is not delivered ahead
\* of the signal that says so.
EraseInProgressNatural(c) ==
  {[ec |-> "ok", inProgress |-> b] :
     b \in {x \in BOOLEAN :
              /\ x = world.eraseInProgress \/ (x /\ c.map.inProgress)
              /\ ~x => \A i \in DOMAIN world.signals :
                         world.signals[i].inProgress # "false"}}

EraseInProgressFaulty == {[ec |-> "other", inProgress |-> FALSE]}

\* The continuation of the poll in eraseDrive.
eraseDrivePoll(c) ==
  /\ Deliverable(c, "EraseInProgress")
  /\ \E r \in Replies(EraseInProgressNatural(c), EraseInProgressFaulty) :
       /\ CountFault(c, r, EraseInProgressFaulty)
       /\ LET u == IF r.ec # "ok" THEN [task |-> task, calls |-> {}]
                   ELSE eraseTaskUpdate(r.inProgress, task, c.svc, c.path,
                                        <<"poll">>)
              rest == (inflight \ {c}) \cup u.calls
          IN  /\ task' = u.task
              /\ inflight' = rest
              /\ issued' = issued \cup u.calls
              /\ phase' = IF rest = {} /\ world.signals = <<>>
                             /\ ~world.eraseInProgress
                          THEN "done" ELSE "running"
  /\ UNCHANGED <<req, world, doc, resStatus, hap>>

\* The continuation of getAllProperties in eraseTaskUpdate: every branch
\* completes the task.
eraseTaskUpdateProperties(c) ==
  /\ Deliverable(c, "EraseProperties")
  /\ \E r \in Replies({[ec |-> "ok"]}, {[ec |-> "other"]}) :
       /\ CountFault(c, r, {[ec |-> "other"]})
       /\ task' = IF r.ec # "ok" \/ world.errorName # <<>>
                  THEN complete(task, <<"Exception">>)
                  ELSE complete(task, <<"Completed">>)
       /\ inflight' = inflight \ {c}
       /\ phase' = IF inflight \ {c} = {} /\ world.signals = <<>>
                      /\ ~world.eraseInProgress
                   THEN "done" ELSE "running"
  /\ UNCHANGED <<req, world, doc, resStatus, issued, hap>>

(***************************************************************************)
(* The storage family as a system.                                         *)
(***************************************************************************)
\* The backends of a storage scenario.
StorageWorlds ==
  UNION {{[objs |-> S, malformed |-> {}, blockSize |-> b, attached |-> A,
           eraseInProgress |-> FALSE, errorName |-> <<>>, signals |-> <<>>] :
            b \in BlockSizes,
            A \in SUBSET {o.path : o \in {q \in S : q.kind = "Volume"}}} :
           S \in StorageInventories}

\* The backend of an erase: the drive, no erase in progress.
EraseWorlds ==
  {[objs |-> {Obj(<<INV, H1, R2>>, "Drive", <<"svcA">>)}, malformed |-> {},
    blockSize |-> <<"5", "1", "2">>, attached |-> {},
    eraseInProgress |-> FALSE, errorName |-> <<>>, signals |-> <<>>]}

StorageRequests ==
  [kind : {"Controllers"}, expandLevel : {0}, storageId : {S1, S2}]
    \cup [kind : {"Volume"}, expandLevel : {0}, storageId : {S1},
          volumeId : {V1, V3}]
    \cup [kind : {"PatchAttached"}, expandLevel : {0}, storageId : {S1},
          controllerId : {N1},
          uris : UNION {[1..n -> PatchUris] : n \in 0..MaxUris}]
    \cup [kind : {"Erase"}, expandLevel : {0}, chassisId : {H1},
          driveName : {R2}]

StorageInit ==
  /\ req \in StorageRequests
  /\ world \in (IF req.kind = "Erase" THEN EraseWorlds ELSE StorageWorlds)
  /\ req.kind # "Volume" => world.blockSize = <<"5", "1", "2">>
  /\ req.kind # "PatchAttached" => world.attached = {}
  /\ doc = <<>>
  /\ resStatus = "200"
  /\ inflight = {}
  /\ issued = {}
  /\ faults = 0
  /\ answered = {}
  /\ phase = "idle"
  /\ hap = NoHap
  /\ task = NoTask

StorageNext ==
  \/ storageControllerCollectionHandler
  \/ storageVolumeHandler
  \/ \E c \in inflight : findStorage(c)
  \/ \E c \in inflight : populateStorageControllerCollection(c)
  \/ \E c \in inflight : findStorageVolume(c)
  \/ \E c \in inflight : populateStorageVolumeProperties(c)
  \/ \E c \in inflight : tryPopulateVolumeNvmeProperties(c)
  \/ storagePatchController
  \/ \E c \in inflight : findStorageController(c)
  \/ \E c \in inflight : findStorageControllerSubTree(c)
  \/ \E c \in inflight : storagePatchAttachedVolumesVolumes(c)
  \/ \E c \in inflight : storagePatchAttachedVolumesAttached(c)
  \/ \E c \in inflight : storageApplyDetachVolume(c)
  \/ \E c \in inflight : storageApplyAttachVolume(c)
  \/ \E c \in inflight : storageApplyAttachDetachObject(c)
  \/ \E c \in inflight : populateStorageControllerAttached(c)
  \/ eraseDrive
  \/ \E c \in inflight : eraseDriveErase(c)
  \/ driveEraseEnds
  \/ driveErasePercentage
  \/ eraseTaskHandler
  \/ \E c \in inflight : eraseDrivePoll(c)
  \/ \E c \in inflight : eraseTaskUpdateProperties(c)

StorageSpec == StorageInit /\ [][StorageNext]_vars

\* The storage at a path of the backend.
StorageAt(path) == {o \in world.objs : o.kind = "Storage" /\ o.path = path}

\* C33: findStorage invokes its continuation only when the storage object is
\* owned by exactly one service: whenever the call its continuation issues
\* has been issued, the storage found has exactly one service, and whenever
\* the storage found has another number of services, resource-not-found is
\* reported and that call is never issued.
C33_ContinuationOnlyForOneOwner ==
  \A c \in issued :
    c.kind \in {"ControllerPaths", "VolumeSubTree"}
      => \A o \in StorageAt(c.path) : Len(o.svcs) = 1

\* C34: the LBADataSizeBytes reported for an NVMe volume is the BlockSize
\* fetched for that volume, in whatever order the two continuations ran.
LBADataSizeBytes == <<"NVMeNamespaceProperties", "LBAFormat", "LBADataSizeBytes">>

C34_LbaSizeIsBlockSize ==
  (req.kind = "Volume" /\ LBADataSizeBytes \in DOMAIN doc)
    => doc[LBADataSizeBytes] = world.blockSize


\* The AttachVolume and DetachVolume calls among the calls S.
VolumeCalls(S) == {c \in S : c.kind \in {"AttachVolume", "DetachVolume"}}

\* The object paths of the volumes the request wants attached.
RequestedVolumes ==
  {<<INV, req.storageId, VOLUMES, req.uris[i].volume>> : i \in DOMAIN req.uris}

\* C35: during an AttachedVolumes PATCH at most one attach or detach call is
\* in flight; a call is issued only when every attach or detach call issued
\* before it has been answered with success; and when an AttachVolume is
\* issued no volume that has to be detached is attached any more.
C35_OneAtATimeDetachFirst ==
  /\ [](Cardinality(VolumeCalls(inflight)) <= 1)
  /\ [][\A c \in VolumeCalls(issued') \ VolumeCalls(issued) :
          /\ \A p \in VolumeCalls(issued) : <<p, "ok">> \in answered'
          /\ c.kind = "AttachVolume"
               => /\ world'.attached \subseteq RequestedVolumes
                  /\ \A p \in VolumeCalls(issued) :
                       p.kind = "DetachVolume" => <<p, "ok">> \in answered'
                  /\ c.map.detaches = <<>>]_vars

C35_Witness ==
  /\ \E c \in issued : c.kind = "AttachVolume"
  /\ \E c \in issued : c.kind = "DetachVolume" /\ <<c, "ok">> \in answered

\* C36: the DetachVolume calls are for the attached volumes that are not
\* requested, the AttachVolume calls for the requested volumes that are not
\* attached, no volume gets two calls of a kind, and once both lists are
\* done the attached volumes are the requested ones.
C36_CallsAreTheDifference ==
  /\ [][\A c \in VolumeCalls(issued') \ VolumeCalls(issued) :
          /\ c.kind = "DetachVolume"
               => c.ids[1] \in world'.attached \ RequestedVolumes
          /\ c.kind = "AttachVolume"
               => c.ids[1] \in RequestedVolumes \ world'.attached
          /\ \A p \in VolumeCalls(issued) :
               p.kind = c.kind => p.ids[1] # c.ids[1]]_vars
  /\ [](\A c \in issued :
          c.kind = "ControllerObject" => world.attached = RequestedVolumes)

\* A requested URI is malformed, names another storage, or names no volume
\* of this storage.
BadVolumeUri ==
  /\ req.kind = "PatchAttached"
  /\ \E i \in DOMAIN req.uris :
       \/ ~req.uris[i].parsed
       \/ req.uris[i].storage # req.storageId
       \/ \A o \in ObjsOfKind({"Volume"}) :
            o.path # <<INV, req.storageId, VOLUMES, req.uris[i].volume>>

PatchError == IF <<"error">> \in DOMAIN doc THEN doc[<<"error">>] ELSE <<>>

\* C37 as stated: a PATCH with such a URI is answered with InvalidURI and no
\* AttachVolume or DetachVolume call is issued.
C37_BadUriIsInvalidUri ==
  BadVolumeUri
    => /\ VolumeCalls(issued) = {}
       /\ phase = "done" => PatchError = <<"InvalidURI">>

\* C37, amended: a PATCH with such a URI never issues an AttachVolume or
\* DetachVolume call and is never answered with success.  It is answered
\* with InvalidURI before any backend call when a URI is malformed or names
\* another storage, and with InvalidURI when the controller was found and
\* the volumes of the storage were listed; when the controller is not found
\* the answer is ResourceNotFound, and when the listing of the volumes fails
\* it is InternalError.
C37_BadUriNeverReachesTheController ==
  BadVolumeUri
    => /\ VolumeCalls(issued) = {}
       /\ \A c \in issued : c.kind # "AttachedPaths"
       /\ (\E i \in DOMAIN req.uris :
             ~req.uris[i].parsed \/ req.uris[i].storage # req.storageId)
            => issued = {} /\ (phase = "done" => PatchError = <<"InvalidURI">>)
       /\ phase = "done"
            => /\ PatchError \in {<<"InvalidURI">>, <<"ResourceNotFound">>,
                                  <<"InternalError">>}
               /\ (\E c \in issued :
                     c.kind = "VolumePaths" /\ <<c, "ok">> \in answered)
                    => PatchError = <<"InvalidURI">>
               /\ PatchError = <<"ResourceNotFound">>
                    => \A c \in issued : c.kind # "VolumePaths"
               /\ PatchError = <<"InternalError">>
                    => \E c \in issued :
                         /\ c.kind = "VolumePaths"
                         /\ <<c, "ok">> \notin answered

C37_Witness ==
  /\ BadVolumeUri
  /\ phase = "done"
  /\ PatchError = <<"InvalidURI">>
  /\ \E c \in issued : c.kind = "VolumePaths" /\ <<c, "ok">> \in answered
  /\ world.attached # {}


\* C38: for one drive erase the task is completed at most once, whatever the
\* order of the reply to the one-shot poll and the PropertiesChanged signals.
C38_CompletedAtMostOnce ==
  req.kind = "Erase" => task.completions <= 1


\* The number of nested expansion calls above the call that writes at ptr:
\* one for every collection entered and one for every member entered.
Hops(ptr) ==
  Cardinality({i \in DOMAIN ptr : ptr[i] \in {"Members", "SubProcessors"}})

\* C39: an expansion started with budget d never hands on a budget above d
\* (the unsigned budget does not wrap around below 0), and the budget a call
\* carries plus the number of nested calls above it is at most d, so no
\* chain of nested calls is longer than d.
C39_ChainWithinBudget ==
  \A c \in issued :
     /\ c.level <= req.expandLevel
     /\ Hops(c.ptr) + c.level <= req.expandLevel

\* C39 witness: the budget has reached 0 with a thread collection, four
\* calls below the top, and the response is finished.
C39_Witness ==
  /\ phase = "done"
  /\ \E c \in issued :
       c.kind = "ThreadManagedObjects" /\ c.level = 0 /\ Hops(c.ptr) = 4

=============================================================================
